---- MODULE Spec2Model ----
(***************************************************************************)
(* Model of linuxio-auth (src/backend/auth/linuxio-auth.c): the single-    *)
(* shot authentication broker.  The broker (main, handle_client) and the   *)
(* bridge child it forks (spawn_bridge_process) are two processes that     *)
(* interleave; descriptors are modelled by number, with the kernel's       *)
(* lowest-free allocation, in one descriptor table per process.            *)
(***************************************************************************)
EXTENDS Integers, Sequences, FiniteSets, TLC

(***************************************************************************)
(* Bounds of the model.                                                    *)
(***************************************************************************)
\* highest descriptor number of a process's table (the table is 0..MaxFd)
MaxFd == 9
\* highest descriptor number at which SpecFd places a source descriptor
MaxSrcFd == 6
\* sizeof(user), sizeof(password), sizeof(session_id), scaled down
UserBufSz == 3
PasswordBufSz == 3
SessionIdBufSz == 3
\* to_pw, the probe timeout in seconds read by user_has_sudo (1..30 in the program)
ProbeTimeoutSec == 1

(***************************************************************************)
(* Program constants.                                                      *)
(***************************************************************************)
STDIN_FILENO == 0
STDOUT_FILENO == 1
STDERR_FILENO == 2
CLIENT_CONN_FD == 3
EXEC_STATUS_FD == 4
BRIDGE_FD == 5

VARIABLES
  \* ---- the broker (parent) ----
  pc,               \* position of the broker in main / handle_client
  exitcode,         \* the broker's exit code; -1 while it runs
  resp,             \* the send_response calls so far, each with what reached the wire
  hist,             \* the broker's calls so far, in order: <<call, argument or result>>
  nread,            \* parts of the request read so far (header, user, password, session_id)
  header,           \* the request header as read: "none", "ok" or "bad"
  user,             \* char user[PROTO_MAX_USERNAME]
  password,         \* char password[PROTO_MAX_PASSWORD]
  session_id,       \* char session_id[PROTO_MAX_SESSION_ID]
  motd,             \* appdata.motd, as collected by the conversation callback
  pw,               \* struct passwd *pw: NoPw or [uid, gid]
  want_privileged,  \* result of user_has_sudo, 0 or 1
  pfd,              \* the broker's descriptor table: fd -> [obj, cloexec]
  bridge_fd,        \* descriptor numbers held in handle_client's locals
  bootstrap_pipe,
  exec_status_pipe,
  execPipe,         \* bytes waiting in the exec-status pipe
  exec_status_n,    \* result of the read on the exec-status pipe; -1 before it
  probe,            \* run_cmd_as_user_with_input: its locals and the probe child
  peer,             \* what the kernel and the user database report about the peer
  startup,          \* how the broker was started: argv, effective uid, stdin
  bridge_file,      \* what open_and_validate_bridge found at the bridge's path
  call,             \* a function run on its own: its name, arguments and result
  \* ---- the bridge child ----
  fdt,              \* the child's descriptor table: fd -> [obj, cloexec]
  cpc,              \* the child's position in spawn_bridge_process
  cstatus,          \* the child's wait status once it has terminated
  execd,            \* the child has passed a successful exec of the bridge
  cred,             \* the child's credentials: real, effective, saved uid and gid
  cenv,             \* the process environment: the broker's, then the child's own
  orig_client,      \* locals and arguments of spawn_bridge_process
  orig_bootstrap,
  orig_exec_status,
  orig_bridge,
  tmp_exec_status,
  tmp_bridge

\* the locals of the child's descriptor setup
fdlocals == <<orig_client, orig_bootstrap, orig_exec_status, orig_bridge,
              tmp_exec_status, tmp_bridge>>

childvars == <<fdt, cpc, cstatus, execd, fdlocals, cred, cenv>>

reqvars == <<nread, header, user, password, session_id>>

pipevars == <<pfd, bridge_fd, bootstrap_pipe, exec_status_pipe, execPipe, exec_status_n>>

parentvars == <<pc, exitcode, resp, hist, reqvars, motd, pw, want_privileged,
                pipevars, probe, peer, startup, bridge_file, call>>

vars == <<parentvars, childvars>>

(***************************************************************************)
(* Descriptor tables and the system calls on them.                         *)
(***************************************************************************)
Fds == 0..MaxFd

\* open file descriptions a descriptor can refer to
Objs == {"client", "stderr", "bridge", "bootstrap_r", "bootstrap_w",
         "exec_r", "exec_w", "other"}

NoFd == [obj |-> "none", cloexec |-> FALSE]

EmptyTable == [f \in Fds |-> NoFd]

IsOpen(t, fd) == fd \in Fds /\ t[fd].obj # "none"

\* the kernel hands out the lowest free descriptor number; -1: none left (EMFILE)
LowestFree(t) ==
  IF \E f \in Fds : t[f].obj = "none"
  THEN CHOOSE f \in Fds : t[f].obj = "none" /\ \A g \in Fds : g < f => t[g].obj # "none"
  ELSE -1

\* dup(fd): a new descriptor for the same description, close-on-exec clear
DupFd(t, fd) == IF IsOpen(t, fd) THEN LowestFree(t) ELSE -1

DupTab(t, fd) ==
  IF DupFd(t, fd) >= 0
  THEN [t EXCEPT ![DupFd(t, fd)] = [obj |-> t[fd].obj, cloexec |-> FALSE]]
  ELSE t

\* dup2(old, new): fails on a closed old; old = new changes nothing; otherwise
\* new is silently closed and made a copy of old, close-on-exec clear
Dup2Ok(t, old, new) == IsOpen(t, old) /\ new \in Fds

Dup2Tab(t, old, new) ==
  IF Dup2Ok(t, old, new) /\ old # new
  THEN [t EXCEPT ![new] = [obj |-> t[old].obj, cloexec |-> FALSE]]
  ELSE t

CloseFd(t, fd) == IF fd \in Fds THEN [t EXCEPT ![fd] = NoFd] ELSE t
\* SetCloexec that leaves the flag as it is
SetCloexecSkip(t, fd) == t

\* fcntl(fd, F_GETFD) then F_SETFD with FD_CLOEXEC added; nothing on a closed fd
SetCloexec(t, fd) ==
  IF IsOpen(t, fd) THEN [t EXCEPT ![fd].cloexec = TRUE] ELSE t

\* a successful exec closes every close-on-exec descriptor
ExecTab(t) == [f \in Fds |-> IF t[f].cloexec THEN NoFd ELSE t[f]]

\* the descriptors of a table that refer to description o
Holding(t, o) == {f \in Fds : t[f].obj = o}

(***************************************************************************)
(* spawn_bridge_process, child side: the fixed descriptor layout.          *)
(***************************************************************************)

\* _exit(code): every descriptor of the child is closed
ChildExit(code) ==
  /\ cpc' = "zombie"
  /\ cstatus' = [kind |-> "exit", code |-> code]
  /\ fdt' = EmptyTable

\* lines 911-927: exec_status_fd is moved away when it sits on 0..5
FdMoveExecStatus ==
  /\ cpc = "fd_move_exec_status"
  /\ IF orig_exec_status >= 0 /\ orig_exec_status <= BRIDGE_FD
     THEN IF DupFd(fdt, orig_exec_status) < 0
          THEN /\ ChildExit(127)
               /\ UNCHANGED tmp_exec_status
          ELSE /\ tmp_exec_status' = DupFd(fdt, orig_exec_status)
               /\ fdt' = CloseFd(SetCloexec(DupTab(fdt, orig_exec_status),
                                            DupFd(fdt, orig_exec_status)),
                                 orig_exec_status)
               /\ cpc' = "fd_move_bridge"
               /\ UNCHANGED cstatus
     ELSE /\ tmp_exec_status' = orig_exec_status
          /\ cpc' = "fd_move_bridge"
          /\ UNCHANGED <<fdt, cstatus>>
  /\ UNCHANGED <<cred, cenv, execd, orig_client, orig_bootstrap, orig_exec_status, orig_bridge,
                 tmp_bridge, parentvars>>

\* lines 929-939: bridge_fd is moved away when it sits on 0..5
FdMoveBridge ==
  /\ cpc = "fd_move_bridge"
  /\ IF orig_bridge >= 0 /\ orig_bridge <= BRIDGE_FD
     THEN IF DupFd(fdt, orig_bridge) < 0
          THEN /\ ChildExit(127)
               /\ UNCHANGED tmp_bridge
          ELSE /\ tmp_bridge' = DupFd(fdt, orig_bridge)
               /\ fdt' = CloseFd(DupTab(fdt, orig_bridge), orig_bridge)
               /\ cpc' = "fd_save_client"
               /\ UNCHANGED cstatus
     ELSE /\ tmp_bridge' = orig_bridge
          /\ cpc' = "fd_save_client"
          /\ UNCHANGED <<fdt, cstatus>>
  /\ UNCHANGED <<cred, cenv, execd, orig_client, orig_bootstrap, orig_exec_status, orig_bridge,
                 tmp_exec_status, parentvars>>

\* lines 943-949: a client connection on fd 0 is saved before fd 0 is overwritten
FdSaveClient ==
  /\ cpc = "fd_save_client"
  /\ IF orig_client = STDIN_FILENO
     THEN IF DupFd(fdt, orig_client) < 0
          THEN /\ ChildExit(127)
               /\ UNCHANGED orig_client
          ELSE /\ orig_client' = DupFd(fdt, orig_client)
               /\ fdt' = DupTab(fdt, orig_client)
               /\ cpc' = "fd_stdin"
               /\ UNCHANGED cstatus
     ELSE /\ cpc' = "fd_stdin"
          /\ UNCHANGED <<fdt, cstatus, orig_client>>
  /\ UNCHANGED <<cred, cenv, execd, orig_bootstrap, orig_exec_status, orig_bridge,
                 tmp_exec_status, tmp_bridge, parentvars>>

\* lines 951-955: fd 0 becomes the bootstrap read end
FdStdin ==
  /\ cpc = "fd_stdin"
  /\ IF orig_bootstrap >= 0
     THEN IF ~Dup2Ok(fdt, orig_bootstrap, STDIN_FILENO)
          THEN ChildExit(127)
          ELSE /\ fdt' = IF orig_bootstrap # STDIN_FILENO
                         THEN CloseFd(Dup2Tab(fdt, orig_bootstrap, STDIN_FILENO),
                                      orig_bootstrap)
                         ELSE fdt
               /\ cpc' = "fd_stdout"
               /\ UNCHANGED cstatus
     ELSE /\ cpc' = "fd_stdout"
          /\ UNCHANGED <<fdt, cstatus>>
  /\ UNCHANGED <<cred, cenv, execd, fdlocals, parentvars>>

\* line 958: fd 1 becomes a duplicate of fd 2
FdStdout ==
  /\ cpc = "fd_stdout"
  /\ IF ~Dup2Ok(fdt, STDERR_FILENO, STDOUT_FILENO)
     THEN ChildExit(127)
     ELSE /\ fdt' = Dup2Tab(fdt, STDERR_FILENO, STDOUT_FILENO)
          /\ cpc' = "fd_client"
          /\ UNCHANGED cstatus
  /\ UNCHANGED <<cred, cenv, execd, fdlocals, parentvars>>

\* lines 961-965: fd 3 becomes the client connection
FdClient ==
  /\ cpc = "fd_client"
  /\ IF orig_client >= 0 /\ orig_client # CLIENT_CONN_FD
     THEN IF ~Dup2Ok(fdt, orig_client, CLIENT_CONN_FD)
          THEN ChildExit(127)
          ELSE /\ fdt' = CloseFd(Dup2Tab(fdt, orig_client, CLIENT_CONN_FD), orig_client)
               /\ cpc' = "fd_exec_status"
               /\ UNCHANGED cstatus
     ELSE /\ cpc' = "fd_exec_status"
          /\ UNCHANGED <<fdt, cstatus>>
  /\ UNCHANGED <<cred, cenv, execd, fdlocals, parentvars>>

\* lines 968-987: fd 4 becomes the exec-status write end, close-on-exec re-asserted
FdExecStatus ==
  /\ cpc = "fd_exec_status"
  /\ IF tmp_exec_status >= 0 /\ tmp_exec_status # EXEC_STATUS_FD
     THEN IF ~Dup2Ok(fdt, tmp_exec_status, EXEC_STATUS_FD)
          THEN ChildExit(127)
          ELSE /\ fdt' = SetCloexec(
                           CloseFd(Dup2Tab(fdt, tmp_exec_status, EXEC_STATUS_FD),
                                   tmp_exec_status),
                           EXEC_STATUS_FD)
               /\ cpc' = "fd_bridge"
               /\ UNCHANGED cstatus
     ELSE /\ fdt' = IF tmp_exec_status = EXEC_STATUS_FD
                    THEN SetCloexec(fdt, EXEC_STATUS_FD)
                    ELSE fdt
          /\ cpc' = "fd_bridge"
          /\ UNCHANGED cstatus
  /\ UNCHANGED <<cred, cenv, execd, fdlocals, parentvars>>

\* lines 990-994: fd 5 becomes the bridge handle
FdBridge ==
  /\ cpc = "fd_bridge"
  /\ IF tmp_bridge >= 0 /\ tmp_bridge # BRIDGE_FD
     THEN IF ~Dup2Ok(fdt, tmp_bridge, BRIDGE_FD)
          THEN ChildExit(127)
          ELSE /\ fdt' = CloseFd(Dup2Tab(fdt, tmp_bridge, BRIDGE_FD), tmp_bridge)
               /\ cpc' = "child_env"
               /\ UNCHANGED cstatus
     ELSE /\ cpc' = "child_env"
          /\ UNCHANGED <<fdt, cstatus>>
  /\ UNCHANGED <<cred, cenv, execd, fdlocals, parentvars>>

(***************************************************************************)
(* spawn_bridge_process, child side: environment, privileges, exec.        *)
(***************************************************************************)
\* no passwd entry
NoPw == [uid |-> -1, gid |-> -1, name |-> <<>>, dir |-> <<>>]

\* ---- texts, as sequences of character codes ----
\* character classes by ASCII code
IsAlnum(c) == (c >= 65 /\ c <= 90) \/ (c >= 97 /\ c <= 122) \/ (c >= 48 /\ c <= 57)

\* "/usr/local/sbin:/usr/local/bin:/usr/sbin:/usr/bin:/sbin:/bin" (line 1046)
FixedPath ==
  <<47, 117, 115, 114, 47, 108, 111, 99, 97, 108, 47, 115, 98, 105, 110, 58, 47, 117,
    115, 114, 47, 108, 111, 99, 97, 108, 47, 98, 105, 110, 58, 47, 117, 115, 114, 47,
    115, 98, 105, 110, 58, 47, 117, 115, 114, 47, 98, 105, 110, 58, 47, 115, 98, 105,
    110, 58, 47, 98, 105, 110>>

\* "C.UTF-8" (line 1022)
DefaultLang == <<67, 46, 85, 84, 70, 45, 56>>

\* "xterm-256color" (line 1023)
DefaultTerm == <<120, 116, 101, 114, 109, 45, 50, 53, 54, 99, 111, 108, 111, 114>>

\* "/root" and "root" (lines 1057-1059)
RootHome == <<47, 114, 111, 111, 116>>
RootName == <<114, 111, 111, 116>>

\* the user of the model: "u", at home in "/home/u"
UserName == <<117>>
UserHome == <<47, 104, 111, 109, 101, 47, 117>>

\* "/run/user/" (line 1076)
RunUserPrefix == <<47, 114, 117, 110, 47, 117, 115, 101, 114, 47>>

\* the longest locale string valid_locale lets through (line 682)
LocaleMax == 64

\* sizeof(safe_lang), sizeof(safe_term) and sizeof(xdg) (lines 1022, 1023, 1075)
SafeBufSz == 128
XdgBufSz == 64

\* "%u" of safe_snprintf: the decimal digits of n
RECURSIVE Decimal(_)
Decimal(n) == IF n < 10 THEN <<48 + n>> ELSE Decimal(n \div 10) \o <<48 + (n % 10)>>

\* safe_snprintf(buf, size, "%s", t): t, cut to what fits with the final NUL
Snprintf(t, size) == IF Len(t) < size THEN t ELSE SubSeq(t, 1, size - 1)

\* valid_locale (676-697) on a string that is not NULL: not empty, at most 64
\* characters, each of them a letter, a digit or one of _ - . @
valid_locale(t) ==
  /\ Len(t) > 0
  /\ Len(t) <= LocaleMax
  /\ \A i \in 1..Len(t) : IsAlnum(t[i]) \/ t[i] \in {95, 45, 46, 64}

\* lines 1030-1041: TERM is taken over if it is not empty, made of letters, digits
\* and dashes only, and fits safe_term
valid_term(t) ==
  /\ Len(t) > 0
  /\ \A i \in 1..Len(t) : IsAlnum(t[i]) \/ t[i] = 45
  /\ Len(t) < SafeBufSz

\* setenv(n, v, 1) on environment e
setenv(e, n, v) == [x \in DOMAIN e \cup {n} |-> IF x = n THEN v ELSE e[x]]

\* clearenv()
EmptyEnv == [x \in {} |-> <<>>]

\* LauncherEnv without clearenv()
LauncherEnvKeep(e) ==
  LET safe_lang == IF "LANG" \in DOMAIN e /\ valid_locale(e["LANG"])
                   THEN Snprintf(e["LANG"], SafeBufSz) ELSE DefaultLang
      safe_term == IF "TERM" \in DOMAIN e /\ valid_term(e["TERM"])
                   THEN Snprintf(e["TERM"], SafeBufSz) ELSE DefaultTerm
  IN setenv(setenv(setenv(setenv(e, "PATH", FixedPath), "LANG", safe_lang),
                   "LC_ALL", safe_lang), "TERM", safe_term)
\* lines 1016-1053: LANG, TERM and JOURNAL_STREAM are looked up, the environment is
\* cleared, and PATH, LANG, LC_ALL, TERM and, if it was there and not empty,
\* JOURNAL_STREAM are set
LauncherEnv(e) ==
  LET safe_lang == IF "LANG" \in DOMAIN e /\ valid_locale(e["LANG"])
                   THEN Snprintf(e["LANG"], SafeBufSz) ELSE DefaultLang
      safe_term == IF "TERM" \in DOMAIN e /\ valid_term(e["TERM"])
                   THEN Snprintf(e["TERM"], SafeBufSz) ELSE DefaultTerm
      e4 == setenv(setenv(setenv(setenv(EmptyEnv, "PATH", FixedPath), "LANG", safe_lang),
                          "LC_ALL", safe_lang), "TERM", safe_term)
  IN IF "JOURNAL_STREAM" \in DOMAIN e /\ Len(e["JOURNAL_STREAM"]) > 0
     THEN setenv(e4, "JOURNAL_STREAM", e["JOURNAL_STREAM"])
     ELSE e4

\* t repeated n times
Repeat(c, n) == [i \in 1..n |-> c]

\* a variable that is not set
Unset == <<-1>>

\* what the broker's own environment may hold.  LANG: unset, empty, "C",
\* "en_US.UTF-8", "a/b", and strings of LocaleMax and LocaleMax + 1 letters
LangValues ==
  {Unset, <<>>, <<67>>, <<101, 110, 95, 85, 83, 46, 85, 84, 70, 45, 56>>, <<97, 47, 98>>,
   Repeat(97, LocaleMax), Repeat(97, LocaleMax + 1)}

\* TERM: unset, empty, "xterm", "x/y", and strings of SafeBufSz - 1 and SafeBufSz
\* letters
TermValues ==
  {Unset, <<>>, <<120, 116, 101, 114, 109>>, <<120, 47, 121>>,
   Repeat(120, SafeBufSz - 1), Repeat(120, SafeBufSz)}

\* JOURNAL_STREAM: unset, empty, "8:1"
JournalValues == {Unset, <<>>, <<56, 58, 49>>}

\* LD_PRELOAD, a variable the launcher does not set: unset, "/x.so"
PreloadValues == {Unset, <<47, 120, 46, 115, 111>>}

EnvOf(lang, term, journal, preload) ==
  LET v == [n \in {"LANG", "TERM", "JOURNAL_STREAM", "LD_PRELOAD"} |->
              IF n = "LANG" THEN lang ELSE IF n = "TERM" THEN term
              ELSE IF n = "JOURNAL_STREAM" THEN journal ELSE preload]
  IN [n \in {k \in DOMAIN v : v[k] # Unset} |-> v[n]]

BrokerEnvs ==
  {EnvOf(l, t, j, x) : l \in LangValues, t \in TermValues, j \in JournalValues,
                       x \in PreloadValues}

\* the environment the service manager gives the broker: LANG "C", a journal
\* stream, the preloaded library, no TERM
ServiceEnv == EnvOf(<<67>>, Unset, <<56, 58, 49>>, <<47, 120, 46, 115, 111>>)

\* lines 1057-1059: HOME, USER and LOGNAME of a privileged bridge
RootEnv(e) == setenv(setenv(setenv(e, "HOME", RootHome), "USER", RootName), "LOGNAME", RootName)

\* lines 1072-1077: HOME, USER, LOGNAME and XDG_RUNTIME_DIR of an unprivileged bridge
UserEnv(e, p) ==
  setenv(setenv(setenv(setenv(e, "HOME", p.dir), "USER", p.name), "LOGNAME", p.name),
         "XDG_RUNTIME_DIR", Snprintf(RunUserPrefix \o Decimal(p.uid), XdgBufSz))

\* lines 1004-1053: socket timeouts, umask, resource limits, environment
ChildEnv ==
  /\ cpc = "child_env"
  /\ cpc' = "child_privs"
  /\ cenv' = LauncherEnv(cenv)
  /\ UNCHANGED <<cred, fdt, cstatus, execd, fdlocals, parentvars>>

\* ---- credentials: real, effective and saved uid and gid, supplementary groups ----
RootCred == [ruid |-> 0, euid |-> 0, suid |-> 0, rgid |-> 0, egid |-> 0, sgid |-> 0,
             groups |-> "broker"]
\* the credentials the broker, and so the forked child, may start with: root's, or
\* those of a set-uid-root start by the user (only the effective uid is checked)
BrokerCreds == {RootCred, [RootCred EXCEPT !.ruid = 1000, !.rgid = 1000]}

\* setuid(u) and setgid(g): a process with effective uid 0 sets all three ids, any
\* other may only set its effective id to its real or saved one
CanSetuid(c, u) == c.euid = 0 \/ u \in {c.ruid, c.suid}
Setuid(c, u) ==
  IF c.euid = 0 THEN [c EXCEPT !.ruid = u, !.euid = u, !.suid = u] ELSE [c EXCEPT !.euid = u]
CanSetgid(c, g) == c.euid = 0 \/ g \in {c.rgid, c.sgid}
Setgid(c, g) ==
  IF c.euid = 0 THEN [c EXCEPT !.rgid = g, !.egid = g, !.sgid = g] ELSE [c EXCEPT !.egid = g]

\* the calls of the privilege transition the system may refuse; "none": it refuses
\* none
PrivSteps == {"none", "setgroups", "initgroups", "setgid", "setuid", "chdir"}

\* drop_to_user without the check that root cannot be regained
drop_to_user_unchecked(c, p, fail) ==
  LET c1 == [c EXCEPT !.groups = "none"]
      c2 == [c1 EXCEPT !.groups = "user"]
      c3 == Setgid(c2, p.gid)
      c4 == Setuid(c3, p.uid)
  IN IF fail = "setgroups" \/ c.euid # 0 THEN [cred |-> c, ok |-> FALSE]
     ELSE IF fail = "initgroups" THEN [cred |-> c1, ok |-> FALSE]
     ELSE IF fail = "setgid" \/ ~CanSetgid(c2, p.gid) THEN [cred |-> c2, ok |-> FALSE]
     ELSE IF fail = "setuid" \/ ~CanSetuid(c3, p.uid) THEN [cred |-> c3, ok |-> FALSE]
     ELSE [cred |-> c4, ok |-> TRUE]

\* drop_to_user (662-674) from credentials c to passwd entry p: the credentials it
\* leaves and whether it returns (ok) or ends the child with _exit(127)
drop_to_user(c, p, fail) ==
  LET c1 == [c EXCEPT !.groups = "none"]
      c2 == [c1 EXCEPT !.groups = "user"]
      c3 == Setgid(c2, p.gid)
      c4 == Setuid(c3, p.uid)
  IN IF fail = "setgroups" \/ c.euid # 0 THEN [cred |-> c, ok |-> FALSE]
     ELSE IF fail = "initgroups" THEN [cred |-> c1, ok |-> FALSE]
     ELSE IF fail = "setgid" \/ ~CanSetgid(c2, p.gid) THEN [cred |-> c2, ok |-> FALSE]
     ELSE IF fail = "setuid" \/ ~CanSetuid(c3, p.uid) THEN [cred |-> c3, ok |-> FALSE]
     ELSE IF CanSetuid(c4, 0) THEN [cred |-> Setuid(c4, 0), ok |-> FALSE]
     ELSE [cred |-> c4, ok |-> TRUE]

\* lines 1060-1065: setgroups(0, NULL), setresgid(0, 0, 0), setresuid(0, 0, 0)
become_root(c, fail) ==
  LET c1 == [c EXCEPT !.groups = "none"]
      c2 == [c1 EXCEPT !.rgid = 0, !.egid = 0, !.sgid = 0]
      c3 == [c2 EXCEPT !.ruid = 0, !.euid = 0, !.suid = 0]
  IN IF fail = "setgroups" \/ c.euid # 0 THEN [cred |-> c, ok |-> FALSE]
     ELSE IF fail = "setgid" THEN [cred |-> c1, ok |-> FALSE]
     ELSE IF fail = "setuid" THEN [cred |-> c2, ok |-> FALSE]
     ELSE [cred |-> c3, ok |-> TRUE]

\* lines 1055-1081: the privilege transition.  A privileged bridge gets root's HOME,
\* USER and LOGNAME and all ids 0; an unprivileged one is dropped to the user by
\* drop_to_user, gets the user's HOME, USER, LOGNAME and XDG_RUNTIME_DIR and changes
\* to the home directory.  Any refused call ends the child with _exit(127).
ChildPrivs ==
  /\ cpc = "child_privs"
  /\ \E fail \in PrivSteps :
       IF want_privileged = 1
       THEN LET r == become_root(cred, fail)
            IN /\ cenv' = RootEnv(cenv)
               /\ cred' = r.cred
               /\ IF r.ok
                  THEN cpc' = "child_close_range" /\ UNCHANGED <<fdt, cstatus>>
                  ELSE ChildExit(127)
       ELSE LET r == drop_to_user(cred, pw, fail)
            IN /\ cred' = r.cred
               /\ cenv' = IF r.ok THEN UserEnv(cenv, pw) ELSE cenv
               /\ IF r.ok /\ fail # "chdir"
                  THEN cpc' = "child_close_range" /\ UNCHANGED <<fdt, cstatus>>
                  ELSE ChildExit(127)
  /\ UNCHANGED <<execd, fdlocals, parentvars>>

\* lines 1091-1103: every descriptor >= 6 is closed
ChildCloseRange ==
  /\ cpc = "child_close_range"
  /\ fdt' = [f \in Fds |-> IF f >= BRIDGE_FD + 1 THEN NoFd ELSE fdt[f]]
  /\ cpc' = "child_cloexec_bridge"
  /\ UNCHANGED <<cred, cenv, cstatus, execd, fdlocals, parentvars>>

\* lines 1111-1115: FD 5 is marked close-on-exec
ChildCloexecBridge ==
  /\ cpc = "child_cloexec_bridge"
  /\ fdt' = SetCloexec(fdt, BRIDGE_FD)
  /\ cpc' = "child_exec"
  /\ UNCHANGED <<cred, cenv, cstatus, execd, fdlocals, parentvars>>

\* lines 1122-1125: execveat(BRIDGE_FD, "", ..., AT_EMPTY_PATH).  It can succeed only
\* on a descriptor that refers to the bridge binary; it can fail (r = "fail"), or be
\* missing from the kernel (r = "enosys").
ChildExec ==
  /\ cpc = "child_exec"
  /\ \E r \in {"ok", "fail", "enosys"} :
       CASE r = "ok" ->
              /\ fdt[BRIDGE_FD].obj = "bridge"
              /\ cpc' = "bridge"
              /\ execd' = TRUE
              /\ fdt' = ExecTab(fdt)
         [] r = "fail" ->
              /\ cpc' = "child_exec_failed"
              /\ UNCHANGED <<execd, fdt>>
         [] r = "enosys" ->
              /\ cpc' = "child_exec_fallback"
              /\ UNCHANGED <<execd, fdt>>
  /\ UNCHANGED <<cred, cenv, cstatus, fdlocals, parentvars>>

\* lines 1125-1139: without execveat, the path is read back from /proc/self/fd/5
\* and, if that gave one, FD 5 is closed and the path exec'd
ChildExecFallback ==
  /\ cpc = "child_exec_fallback"
  /\ \E r \in {"ok", "fail", "nolink"} :
       CASE r = "ok" ->
              /\ fdt[BRIDGE_FD].obj = "bridge"
              /\ cpc' = "bridge"
              /\ execd' = TRUE
              /\ fdt' = ExecTab(CloseFd(fdt, BRIDGE_FD))
         [] r = "fail" ->
              /\ fdt[BRIDGE_FD].obj # "none"
              /\ cpc' = "child_exec_failed"
              /\ fdt' = CloseFd(fdt, BRIDGE_FD)
              /\ UNCHANGED execd
         [] r = "nolink" ->
              /\ cpc' = "child_exec_failed"
              /\ UNCHANGED <<execd, fdt>>
  /\ UNCHANGED <<cred, cenv, cstatus, fdlocals, parentvars>>

\* who can still read the exec-status pipe
ExecReaders == Holding(pfd, "exec_r") \cup Holding(fdt, "exec_r")

\* who can still write the exec-status pipe
ExecWriters == Holding(pfd, "exec_w") \cup Holding(fdt, "exec_w")

\* ChildWriteErr without the byte
ChildWriteErrSilent ==
  /\ cpc = "child_exec_failed"
  /\ cpc' = "child_exit"
  /\ UNCHANGED <<fdt, cstatus, execPipe>>
  /\ UNCHANGED <<cred, cenv, call, peer, startup, bridge_file, execd, fdlocals, pc, exitcode, resp, hist, reqvars, motd, pw,
                 want_privileged, pfd, bridge_fd, bootstrap_pipe, exec_status_pipe,
                 exec_status_n, probe>>

\* lines 1143-1147: one byte is written to FD 4, best effort.  On a pipe nobody reads
\* any more the write raises SIGPIPE, which ends the child, or, with SIGPIPE ignored
\* (the disposition is inherited), fails with EPIPE.
ChildWriteErr ==
  /\ cpc = "child_exec_failed"
  /\ IF fdt[EXEC_STATUS_FD].obj = "exec_w"
     THEN IF ExecReaders # {}
          THEN /\ execPipe' = execPipe + 1
               /\ cpc' = "child_exit"
               /\ UNCHANGED <<fdt, cstatus>>
          ELSE \E sigpipe \in {"default", "ignored"} :
                 IF sigpipe = "default"
                 THEN /\ cpc' = "zombie"
                      /\ cstatus' = [kind |-> "signal", code |-> 13]
                      /\ fdt' = EmptyTable
                      /\ UNCHANGED execPipe
                 ELSE /\ cpc' = "child_exit"
                      /\ UNCHANGED <<fdt, cstatus, execPipe>>
     ELSE /\ cpc' = "child_exit"
          /\ UNCHANGED <<fdt, cstatus, execPipe>>
  /\ UNCHANGED <<cred, cenv, call, peer, startup, bridge_file, execd, fdlocals, pc, exitcode, resp, hist, reqvars, motd, pw,
                 want_privileged, pfd, bridge_fd, bootstrap_pipe, exec_status_pipe,
                 exec_status_n, probe>>

\* line 1149: _exit(127)
ChildExit127 ==
  /\ cpc = "child_exit"
  /\ ChildExit(127)
  /\ UNCHANGED <<cred, cenv, execd, fdlocals, parentvars>>

\* the wait statuses the bridge can end with, once exec'd
BridgeStatuses == {[kind |-> "exit", code |-> 0], [kind |-> "exit", code |-> 3],
                   [kind |-> "signal", code |-> 11]}

\* the exec'd bridge runs its own program and ends when it ends
BridgeExit ==
  /\ cpc = "bridge"
  /\ \E st \in BridgeStatuses : cstatus' = st
  /\ cpc' = "zombie"
  /\ fdt' = EmptyTable
  /\ UNCHANGED <<cred, cenv, execd, fdlocals, parentvars>>

\* the child's steps
ChildNext ==
  \/ FdMoveExecStatus
  \/ FdMoveBridge
  \/ FdSaveClient
  \/ FdStdin
  \/ FdStdout
  \/ FdClient
  \/ FdExecStatus
  \/ FdBridge
  \/ ChildEnv
  \/ ChildPrivs
  \/ ChildCloseRange
  \/ ChildCloexecBridge
  \/ ChildExec
  \/ ChildExecFallback
  \/ ChildWriteErr
  \/ ChildExit127
  \/ BridgeExit

(***************************************************************************)
(* Request ingestion: read_lenstr and the validators.                      *)
(***************************************************************************)
\* a zero-filled char array of n bytes (C index i is TLA+ index i+1)
ZeroBuf(n) == [i \in 1..n |-> 0]

AllZero(buf) == \A i \in DOMAIN buf : buf[i] = 0

\* number of bytes before the first NUL
StrLenFrom(buf, i) ==
  IF \E j \in i..Len(buf) : buf[j] = 0
  THEN (CHOOSE j \in i..Len(buf) : buf[j] = 0 /\ \A k \in i..(j - 1) : buf[k] # 0) - i
  ELSE IF i > Len(buf) THEN 0 ELSE Len(buf) - i + 1

\* the C string held in a char array
CStr(buf) == SubSeq(buf, 1, StrLenFrom(buf, 1))
\* read_lenstr with a field as long as the buffer let through
read_lenstr_fits(buf, bufsz, f) ==
  LET b0 == [buf EXCEPT ![1] = 0]
  IN  IF ~f.lenok THEN [rc |-> -1, buf |-> b0]
      ELSE IF f.len = 0 THEN [rc |-> 0, buf |-> b0]
      ELSE IF f.len > bufsz THEN [rc |-> -1, buf |-> b0]
      ELSE IF Len(f.data) < f.len THEN [rc |-> -1, buf |-> b0]
      ELSE [rc |-> 0,
            buf |-> [i \in 1..bufsz |->
                       IF i <= f.len THEN f.data[i] ELSE b0[i]]]

\* A length-prefixed field as it arrives: lenok says the two length bytes could be
\* read, len is the declared length, data the bytes that arrive before EOF.
\* read_lenstr (199-238): rc and the receiving buffer afterwards.
read_lenstr(buf, bufsz, f) ==
  LET b0 == [buf EXCEPT ![1] = 0]
  IN  IF ~f.lenok THEN [rc |-> -1, buf |-> b0]
      ELSE IF f.len = 0 THEN [rc |-> 0, buf |-> b0]
      ELSE IF f.len >= bufsz THEN [rc |-> -1, buf |-> b0]
      ELSE IF Len(f.data) < f.len THEN [rc |-> -1, buf |-> b0]
      ELSE [rc |-> 0,
            buf |-> [i \in 1..bufsz |->
                       IF i <= f.len THEN f.data[i]
                       ELSE IF i = f.len + 1 THEN 0
                       ELSE b0[i]]]


\* valid_session_id (700-721) on the C string s
valid_session_id(s) ==
  IF Len(s) = 0 THEN FALSE
  ELSE IF Len(s) > 64 THEN FALSE
  ELSE \A i \in 1..Len(s) : IsAlnum(s[i]) \/ s[i] = 95 \/ s[i] = 45

\* the fields a peer may send: a well-formed one for each string of good, and the
\* malformed ones (length bytes missing, body cut short, declared length = capacity)
FieldCases(good, bufsz) ==
  {[lenok |-> TRUE, len |-> Len(d), data |-> d] : d \in good}
  \cup {[lenok |-> FALSE, len |-> 0, data |-> <<>>],
        [lenok |-> TRUE, len |-> 2, data |-> <<97>>],
        [lenok |-> TRUE, len |-> bufsz, data |-> [i \in 1..bufsz |-> 97]]}

UserInputs == FieldCases({<<>>, <<117>>}, UserBufSz)
PasswordInputs == FieldCases({<<>>, <<112>>, <<112, 119>>}, PasswordBufSz)
SessionIdInputs == FieldCases({<<>>, <<115>>, <<47>>}, SessionIdBufSz)

(***************************************************************************)
(* The peer gate (check_peer_creds) and the binary validator.              *)
(***************************************************************************)
\* the room for group ids user_in_group starts with (line 747)
NGroupsInitial == 16

\* a group list too long for the first getgrouplist call, ending in gid last
LongGroupList(last) ==
  [i \in 1..(NGroupsInitial + 1) |-> IF i = NGroupsInitial + 1 THEN last ELSE 2000 + i]

\* the configured group lists a peer's user may have, primary gid first
GroupLists == {<<1000>>, <<1000, 990>>, LongGroupList(2990), LongGroupList(990)}

\* what the user database says about the peer's uid: pwok, the lookup buffer was
\* allocated and getpwuid_r found the user; groups, the configured group list; retry, how the second getgrouplist call
\* goes when the first found the list too long ("nomem": realloc failed, "grew":
\* the list has grown again)
PeerUsers == [pwok : BOOLEAN, groups : GroupLists, retry : {"ok", "nomem", "grew"}]

\* user_in_group (729-785): 1 if target_gid is in the user's configured groups, 0 if
\* not, -1 on error
user_in_group(u, target_gid) ==
  IF ~u.pwok THEN -1
  ELSE IF Len(u.groups) > NGroupsInitial /\ u.retry # "ok" THEN -1
  ELSE IF \E i \in 1..Len(u.groups) : u.groups[i] = target_gid THEN 1
  ELSE 0

\* check_peer_creds without the look at the user's configured groups
check_peer_creds_primary_only(c) ==
  IF ~c.sockopt THEN -1
  ELSE IF c.uid = 0 THEN 0
  ELSE IF c.grgid < 0 THEN -1
  ELSE IF c.gid = c.grgid THEN 0
  ELSE -1

\* check_peer_creds (787-826): c.sockopt says getsockopt(SO_PEERCRED) worked, c.uid
\* and c.gid are the peer's, c.grgid the socket group's gid (-1: no such group),
\* c.user the user database's entry for c.uid.  0 accepts, -1 rejects.
check_peer_creds(c) ==
  IF ~c.sockopt THEN -1
  ELSE IF c.uid = 0 THEN 0
  ELSE IF c.grgid < 0 THEN -1
  ELSE IF c.gid = c.grgid THEN 0
  ELSE IF user_in_group(c.user, c.grgid) > 0 THEN 0
  ELSE -1

PeerCreds == [sockopt : BOOLEAN, uid : {0, 1000}, gid : {1000, 990}, grgid : {-1, 990},
              user : PeerUsers]

\* the peers of the full model: the web server, a member of the socket group by its
\* configured groups, and a local user who is not
ServicePeers ==
  {[sockopt |-> TRUE, uid |-> 1000, gid |-> 1000, grgid |-> 990,
    user |-> [pwok |-> TRUE, groups |-> g, retry |-> "ok"]] : g \in {<<1000, 990>>, <<1000>>}}

\* bitwise AND of two naturals
RECURSIVE BitAnd(_, _)
BitAnd(a, b) ==
  IF a = 0 \/ b = 0 THEN 0
  ELSE (a % 2) * (b % 2) + 2 * BitAnd(a \div 2, b \div 2)

\* S_IWGRP | S_IWOTH = 022, the execute bits 0111, S_ISUID | S_ISGID = 06000
WritableByOthersMask == 18
ExecBitsMask == 73
SetIdMask == 3072

\* validate_bridge_via_fd (329-348) on the fstat result st = [ok, reg, mode, uid]
validate_bridge_via_fd(st, required_owner) ==
  IF ~st.ok THEN -1
  ELSE IF ~st.reg THEN -1
  ELSE IF BitAnd(st.mode, WritableByOthersMask) # 0 THEN -1
  ELSE IF st.uid # required_owner THEN -1
  ELSE IF BitAnd(st.mode, ExecBitsMask) = 0 THEN -1
  ELSE IF BitAnd(st.mode, SetIdMask) # 0 THEN -1
  ELSE 0
\* validate_parent_dir_policy with the parent's write bits never looked at
validate_parent_dir_policy_owner_only(ds, file_owner, user_uid) ==
  IF ~ds.dir THEN -1
  ELSE IF file_owner = 0 THEN (IF ds.uid # 0 THEN -1 ELSE 0)
  ELSE IF file_owner = user_uid THEN (IF ds.uid # user_uid THEN -1 ELSE 0)
  ELSE -1

\* validate_parent_dir_policy (350-371) on the directory's stat ds = [dir, mode, uid]
validate_parent_dir_policy(ds, file_owner, user_uid) ==
  IF ~ds.dir THEN -1
  ELSE IF file_owner = 0
       THEN IF ds.uid # 0 THEN -1
            ELSE IF BitAnd(ds.mode, WritableByOthersMask) # 0 THEN -1
            ELSE 0
  ELSE IF file_owner = user_uid
       THEN IF ds.uid # user_uid THEN -1
            ELSE IF BitAnd(ds.mode, WritableByOthersMask) # 0 THEN -1
            ELSE 0
  ELSE -1

\* What open_and_validate_bridge finds on disk: b.open says the path could be opened
\* (O_PATH | O_NOFOLLOW), b.st is the file's stat, b.pdir says its parent directory
\* could be named and opened, b.ds is the parent's stat.  Modes are the numbers
\* 0755 = 493, 0775 = 509, 04755 = 2541, 0644 = 420.
BridgeFiles ==
  [open : BOOLEAN,
   st : [ok : {TRUE}, reg : BOOLEAN, mode : {493, 509, 2541, 420}, uid : {0, 1000}],
   pdir : BOOLEAN,
   ds : [dir : {TRUE}, mode : {493, 509}, uid : {0, 1000}]]
\* the path has not been looked at
NoFile == [open |-> FALSE, st |-> [ok |-> FALSE, reg |-> FALSE, mode |-> 0, uid |-> -1],
           pdir |-> FALSE, ds |-> [dir |-> FALSE, mode |-> 0, uid |-> -1]]

\* open_and_validate_bridge (399-452): 0 and the handle kept, or -1
open_and_validate_bridge(b, required_owner) ==
  IF ~b.open THEN -1
  ELSE IF validate_bridge_via_fd(b.st, required_owner) # 0 THEN -1
  ELSE IF ~b.pdir THEN -1
  ELSE IF validate_parent_dir_policy(b.ds, b.st.uid, required_owner) # 0 THEN -1
  ELSE 0

(***************************************************************************)
(* The broker: send_response, the verifier calls, returning.               *)
(***************************************************************************)
PROTO_STATUS_OK == 0
PROTO_STATUS_ERROR == 1
PROTO_MODE_UNPRIVILEGED == 0
PROTO_MODE_PRIVILEGED == 1

\* What a send_response call puts on the wire: "full" (header and string), "header"
\* (the string's write failed) or "none" (the header's write failed); send_response
\* returns nothing, so its caller carries on in each case.
WriteOutcomes == {"full", "header", "none"}

\* the magic 'L', 'I', 'O' and the version of the wire format
PROTO_MAGIC == <<76, 73, 79>>
PROTO_VERSION == 1

\* the largest length a 2-byte prefix can carry (line 477)
MaxU16 == 65535

\* write_u16_be (463-467): the two bytes of v, high byte first
write_u16_be(v) == <<(v \div 256) % 256, v % 256>>

\* write_u32_be (455-461): the four bytes of v, high byte first; what lies above
\* the 32 bits is dropped
write_u32_be(v) ==
  <<(v \div 16777216) % 256, (v \div 65536) % 256, (v \div 256) % 256, v % 256>>

\* the bits of the bootstrap flags byte: bit 0 verbose, bit 1 privileged
PROTO_FLAG_VERBOSE == 1
PROTO_FLAG_PRIVILEGED == 2

\* write_lenstr with the low byte of the length first
write_lenstr_le(t) ==
  LET len == IF Len(t) > MaxU16 THEN MaxU16 ELSE Len(t)
  IN [len |-> <<len % 256, (len \div 256) % 256>>,
      data |-> IF Len(t) > MaxU16 THEN SubSeq(t, 1, MaxU16) ELSE t]

\* write_lenstr (470-488) on text t: the 2-byte length, capped at 0xFFFF, and that
\* many bytes of t
write_lenstr(t) ==
  LET len == IF Len(t) > MaxU16 THEN MaxU16 ELSE Len(t)
  IN [len |-> write_u16_be(len),
      data |-> IF Len(t) > MaxU16 THEN SubSeq(t, 1, MaxU16) ELSE t]

\* write_bootstrap_binary (492-540): the bytes handed to the bootstrap pipe: magic,
\* version, uid and gid as 32-bit big-endian values, the flags byte, then session
\* id, user name and MOTD, each with its length in front
write_bootstrap_binary(sid, username, m, uid, gid, verbose, privileged) ==
  LET flags == (IF verbose # 0 THEN PROTO_FLAG_VERBOSE ELSE 0)
               + (IF privileged # 0 THEN PROTO_FLAG_PRIVILEGED ELSE 0)
      Str(t) == write_lenstr(t).len \o write_lenstr(t).data
  IN  PROTO_MAGIC \o <<PROTO_VERSION>> \o write_u32_be(uid) \o write_u32_be(gid) \o <<flags>>
        \o Str(sid) \o Str(username) \o Str(m)

\* send_response (835-865): the record of one call.  error is the reason text of an
\* error response, m the MOTD of a success response; header and str are the bytes
\* it hands to write_all, after_exec notes whether the bridge child had already
\* exec'd when the broker wrote.
send_response(status, mode, error, m, w) ==
  [status |-> status, mode |-> mode, error |-> error, motd |-> m, wrote |-> w,
   header |-> PROTO_MAGIC \o <<PROTO_VERSION, status, mode, 0, 0>>,
   str |-> IF status = PROTO_STATUS_ERROR THEN write_lenstr(error) ELSE write_lenstr(m),
   after_exec |-> execd]

\* the verifier's result codes used here
PamCodes == {"PAM_SUCCESS", "PAM_AUTH_ERR", "PAM_NEW_AUTHTOK_REQD"}
\* PamRelease with the pam_end call left out
PamSetcredOnly == << <<"pam_setcred_delete", "">> >>

\* pam_setcred(DELETE_CRED); pam_end(pamh, 0)
PamRelease == << <<"pam_setcred_delete", "">>, <<"pam_end", "PAM_SUCCESS">> >>
\* PamCloseRelease with the session closed last instead of first
PamReleaseThenClose == PamRelease \o << <<"pam_close_session", "">> >>

\* pam_close_session; pam_setcred(DELETE_CRED); pam_end(pamh, 0)
PamCloseRelease == << <<"pam_close_session", "">> >> \o PamRelease

\* return code from handle_client, which main returns as the exit code
Return(code) ==
  /\ pc' = "done"
  /\ exitcode' = code

\* the messages the conversation callback may have collected: none, or "W\n"
Motds == {<<>>, <<87, 10>>}

\* the identities getpwnam may resolve the user to; NoPw: no such user
PwEntries == {NoPw, [uid |-> 1000, gid |-> 1000, name |-> UserName, dir |-> UserHome],
              [uid |-> 0, gid |-> 0, name |-> RootName, dir |-> RootHome]}

(***************************************************************************)
(* main and handle_client up to the elevation probe.                       *)
(***************************************************************************)
\* how the broker may be started: version, argv asks for the version; euid, the
\* effective uid; tty, stdin is a terminal
Startups == [version : BOOLEAN, euid : {0, 1000}, tty : BOOLEAN]

\* the service manager's start: no arguments, root, stdin the accepted socket
ServiceStartup == [version |-> FALSE, euid |-> 0, tty |-> FALSE]

\* main with the peer check after the header has been read
MainPeerCheckLate ==
  /\ pc = "main"
  /\ IF startup.version
     THEN Return(0) /\ hist' = Append(hist, <<"main", "version">>) /\ UNCHANGED <<nread, header>>
     ELSE IF startup.euid # 0
     THEN Return(126) /\ hist' = Append(hist, <<"main", "not root">>) /\ UNCHANGED <<nread, header>>
     ELSE IF startup.tty
     THEN Return(2) /\ hist' = Append(hist, <<"main", "tty">>) /\ UNCHANGED <<nread, header>>
     ELSE IF check_peer_creds(peer) # 0
     THEN /\ Return(1)
          /\ nread' = 1
          /\ header' = "ok"
          /\ hist' = << <<"read_header", "ok">>, <<"main", "peer rejected">> >>
     ELSE /\ pc' = "read_header"
          /\ hist' = Append(hist, <<"main", "handle_client">>)
          /\ UNCHANGED <<exitcode, nread, header>>
  /\ UNCHANGED <<call, peer, startup, bridge_file, resp, user, password, session_id, motd, pw, want_privileged,
                 pipevars, probe, childvars>>

\* main (1507-1548): the version argument, then the startup gates in the order
\* euid, tty, peer credentials, then handle_client
Main ==
  /\ pc = "main"
  /\ IF startup.version
     THEN Return(0) /\ hist' = Append(hist, <<"main", "version">>)
     ELSE IF startup.euid # 0
     THEN Return(126) /\ hist' = Append(hist, <<"main", "not root">>)
     ELSE IF startup.tty
     THEN Return(2) /\ hist' = Append(hist, <<"main", "tty">>)
     ELSE IF check_peer_creds(peer) # 0
     THEN Return(1) /\ hist' = Append(hist, <<"main", "peer rejected">>)
     ELSE /\ pc' = "read_header"
          /\ hist' = Append(hist, <<"main", "handle_client">>)
          /\ UNCHANGED exitcode
  /\ UNCHANGED <<call, peer, startup, bridge_file, resp, reqvars, motd, pw, want_privileged, pipevars, probe,
                 childvars>>

\* handle_client 1155-1161: the 8-byte request header is read
HcReadHeader ==
  /\ pc = "read_header"
  /\ \E h \in {"short", "ok", "bad"}, w \in WriteOutcomes :
       IF h = "short"
       THEN /\ resp' = Append(resp, send_response(PROTO_STATUS_ERROR, 0,
                                       "failed to read request header", <<>>, w))
            /\ hist' = hist \o << <<"read_header", "short">>, <<"send_response", "error">> >>
            /\ Return(1)
            /\ UNCHANGED <<nread, header>>
       ELSE /\ w = "full"
            /\ header' = h
            /\ nread' = 1
            /\ hist' = Append(hist, <<"read_header", "ok">>)
            /\ pc' = "check_magic"
            /\ UNCHANGED <<resp, exitcode>>
  /\ UNCHANGED <<call, peer, startup, bridge_file, user, password, session_id, motd, pw, want_privileged, pipevars,
                 probe, childvars>>
\* HcCheckMagic with the response on a bad magic left out
HcCheckMagicSilent ==
  /\ pc = "check_magic"
  /\ IF header = "bad"
     THEN /\ hist' = Append(hist, <<"check_magic", "bad">>)
          /\ Return(1)
     ELSE /\ hist' = Append(hist, <<"check_magic", "ok">>)
          /\ pc' = "read_fields"
          /\ UNCHANGED exitcode
  /\ UNCHANGED <<call, peer, startup, bridge_file, resp, reqvars, motd, pw, want_privileged, pipevars, probe, childvars>>

\* handle_client 1163-1173: magic and version are checked
HcCheckMagic ==
  /\ pc = "check_magic"
  /\ \E w \in WriteOutcomes :
       IF header = "bad"
       THEN /\ resp' = Append(resp, send_response(PROTO_STATUS_ERROR, 0,
                                       "invalid request magic", <<>>, w))
            /\ hist' = hist \o << <<"check_magic", "bad">>, <<"send_response", "error">> >>
            /\ Return(1)
       ELSE /\ w = "full"
            /\ hist' = Append(hist, <<"check_magic", "ok">>)
            /\ pc' = "read_fields"
            /\ UNCHANGED <<resp, exitcode>>
  /\ UNCHANGED <<call, peer, startup, bridge_file, reqvars, motd, pw, want_privileged, pipevars, probe, childvars>>

\* handle_client 1175-1187: the three fields are read, the later ones only if the
\* earlier ones were read (||); on failure the password buffer is zeroised
HcReadFields ==
  /\ pc = "read_fields"
  /\ \E fu \in UserInputs, fp \in PasswordInputs, fs \in SessionIdInputs,
        w \in WriteOutcomes :
       LET ru == read_lenstr(ZeroBuf(UserBufSz), UserBufSz, fu)
           rp == read_lenstr(ZeroBuf(PasswordBufSz), PasswordBufSz, fp)
           rs == read_lenstr(ZeroBuf(SessionIdBufSz), SessionIdBufSz, fs)
           got == IF ru.rc # 0 THEN 0 ELSE IF rp.rc # 0 THEN 1 ELSE IF rs.rc # 0 THEN 2 ELSE 3
           reads == << <<"read_lenstr", "user">>, <<"read_lenstr", "password">>,
                       <<"read_lenstr", "session_id">> >>
           called == SubSeq(reads, 1, IF got = 3 THEN 3 ELSE got + 1)
       IN  IF got < 3
           THEN /\ resp' = Append(resp, send_response(PROTO_STATUS_ERROR, 0,
                                           "failed to read request fields", <<>>, w))
                /\ hist' = hist \o called \o
                             << <<"send_response", "error">>, <<"bzero_password", "">> >>
                /\ user' = ru.buf
                /\ password' = ZeroBuf(PasswordBufSz)
                /\ session_id' = IF got = 2 THEN rs.buf ELSE session_id
                /\ nread' = nread + got
                /\ Return(1)
           ELSE /\ w = "full"
                /\ user' = ru.buf
                /\ password' = rp.buf
                /\ session_id' = rs.buf
                /\ nread' = nread + 3
                /\ hist' = hist \o called
                /\ pc' = "validate_fields"
                /\ UNCHANGED <<resp, exitcode>>
  /\ UNCHANGED <<call, peer, startup, bridge_file, header, motd, pw, want_privileged, pipevars, probe, childvars>>

\* handle_client 1189-1203: required fields and the session id's format
HcValidateFields ==
  /\ pc = "validate_fields"
  /\ \E w \in WriteOutcomes :
       IF user[1] = 0 \/ session_id[1] = 0
       THEN /\ resp' = Append(resp, send_response(PROTO_STATUS_ERROR, 0,
                                       "missing required fields", <<>>, w))
            /\ hist' = hist \o << <<"send_response", "error">>, <<"bzero_password", "">> >>
            /\ password' = ZeroBuf(PasswordBufSz)
            /\ Return(1)
       ELSE IF ~valid_session_id(CStr(session_id))
       THEN /\ resp' = Append(resp, send_response(PROTO_STATUS_ERROR, 0,
                                       "invalid session_id format", <<>>, w))
            /\ hist' = hist \o << <<"send_response", "error">>, <<"bzero_password", "">> >>
            /\ password' = ZeroBuf(PasswordBufSz)
            /\ Return(1)
       ELSE /\ w = "full"
            /\ pc' = "pam_start"
            /\ UNCHANGED <<resp, hist, password, exitcode>>
  /\ UNCHANGED <<call, peer, startup, bridge_file, nread, header, user, session_id, motd, pw, want_privileged, pipevars,
                 probe, childvars>>

\* handle_client 1205-1215: pam_start
HcPamStart ==
  /\ pc = "pam_start"
  /\ \E rc \in {"PAM_SUCCESS", "PAM_SYSTEM_ERR"}, w \in WriteOutcomes :
       IF rc # "PAM_SUCCESS"
       THEN /\ resp' = Append(resp, send_response(PROTO_STATUS_ERROR, 0, rc, <<>>, w))
            /\ hist' = hist \o << <<"pam_start", rc>>, <<"send_response", "error">>,
                                  <<"bzero_password", "">> >>
            /\ password' = ZeroBuf(PasswordBufSz)
            /\ Return(1)
       ELSE /\ w = "full"
            /\ hist' = Append(hist, <<"pam_start", rc>>)
            /\ pc' = "pam_auth"
            /\ UNCHANGED <<resp, password, exitcode>>
  /\ UNCHANGED <<call, peer, startup, bridge_file, nread, header, user, session_id, motd, pw, want_privileged, pipevars,
                 probe, childvars>>
\* HcPamAuth without the reply of its own to an expired password
HcPamAuthNoExpiry ==
  /\ pc = "pam_auth"
  /\ \E ra \in PamCodes, rm \in PamCodes, rs \in {"PAM_SUCCESS", "PAM_CRED_ERR"},
        m \in Motds, w \in WriteOutcomes :
       LET rc1 == IF ra = "PAM_SUCCESS" THEN rm ELSE ra
           calls1 == << <<"pam_authenticate", ra>> >> \o
                     (IF ra = "PAM_SUCCESS" THEN << <<"pam_acct_mgmt", rm>> >> ELSE <<>>)
           rc2 == IF rc1 = "PAM_SUCCESS" THEN rs ELSE rc1
           calls2 == calls1 \o
                     (IF rc1 = "PAM_SUCCESS" THEN << <<"pam_setcred_establish", rs>> >>
                      ELSE <<>>)
       IN  /\ (ra # "PAM_SUCCESS" => rm = "PAM_SUCCESS")
           /\ (rc1 # "PAM_SUCCESS" => rs = "PAM_SUCCESS")
           /\ motd' = m
           /\ IF rc2 # "PAM_SUCCESS"
              THEN /\ resp' = Append(resp, send_response(PROTO_STATUS_ERROR, 0, rc2, <<>>, w))
                   /\ hist' = hist \o calls2 \o
                                << <<"send_response", "error">>, <<"pam_end", rc2>>,
                                   <<"bzero_password", "">> >>
                   /\ password' = ZeroBuf(PasswordBufSz)
                   /\ Return(1)
              ELSE /\ w = "full"
                   /\ hist' = hist \o calls2
                   /\ pc' = "getpwnam"
                   /\ UNCHANGED <<resp, password, exitcode>>
  /\ UNCHANGED <<call, peer, startup, bridge_file, nread, header, user, session_id, pw, want_privileged, pipevars,
                 probe, childvars>>

\* handle_client 1217-1243: authenticate, account management, the expired-password
\* reply, setcred(establish).  ra, rm and rs are the verifier's answers to the three
\* calls, m what its conversation left in the MOTD buffer.
HcPamAuth ==
  /\ pc = "pam_auth"
  /\ \E ra \in PamCodes, rm \in PamCodes, rs \in {"PAM_SUCCESS", "PAM_CRED_ERR"},
        m \in Motds, w \in WriteOutcomes :
       LET rc1 == IF ra = "PAM_SUCCESS" THEN rm ELSE ra
           calls1 == << <<"pam_authenticate", ra>> >> \o
                     (IF ra = "PAM_SUCCESS" THEN << <<"pam_acct_mgmt", rm>> >> ELSE <<>>)
           rc2 == IF rc1 = "PAM_SUCCESS" THEN rs ELSE rc1
           calls2 == calls1 \o
                     (IF rc1 = "PAM_SUCCESS" THEN << <<"pam_setcred_establish", rs>> >>
                      ELSE <<>>)
       IN  /\ (ra # "PAM_SUCCESS" => rm = "PAM_SUCCESS")
           /\ (rc1 # "PAM_SUCCESS" => rs = "PAM_SUCCESS")
           /\ motd' = m
           /\ IF rc1 = "PAM_NEW_AUTHTOK_REQD"
              THEN /\ resp' = Append(resp, send_response(PROTO_STATUS_ERROR, 0,
                                "Password has expired. Please change it via SSH or console.",
                                <<>>, w))
                   /\ hist' = hist \o calls1 \o
                                << <<"send_response", "error">>, <<"pam_end", rc1>>,
                                   <<"bzero_password", "">> >>
                   /\ password' = ZeroBuf(PasswordBufSz)
                   /\ Return(1)
              ELSE IF rc2 # "PAM_SUCCESS"
              THEN /\ resp' = Append(resp, send_response(PROTO_STATUS_ERROR, 0, rc2, <<>>, w))
                   /\ hist' = hist \o calls2 \o
                                << <<"send_response", "error">>, <<"pam_end", rc2>>,
                                   <<"bzero_password", "">> >>
                   /\ password' = ZeroBuf(PasswordBufSz)
                   /\ Return(1)
              ELSE /\ w = "full"
                   /\ hist' = hist \o calls2
                   /\ pc' = "getpwnam"
                   /\ UNCHANGED <<resp, password, exitcode>>
  /\ UNCHANGED <<call, peer, startup, bridge_file, nread, header, user, session_id, pw, want_privileged, pipevars,
                 probe, childvars>>
\* HcGetpwnam opening the verifier session as soon as the user is resolved
HcGetpwnamOpenSession ==
  /\ pc = "getpwnam"
  /\ \E p \in PwEntries \ {NoPw} :
       /\ pw' = p
       /\ hist' = hist \o << <<"getpwnam", "found">>, <<"pam_open_session", "PAM_SUCCESS">> >>
       /\ pc' = "probe"
  /\ UNCHANGED <<call, peer, startup, bridge_file, resp, password, exitcode, nread, header, user, session_id, motd,
                 want_privileged, pipevars, probe, childvars>>

\* handle_client 1245-1256: getpwnam
HcGetpwnam ==
  /\ pc = "getpwnam"
  /\ \E p \in PwEntries, w \in WriteOutcomes :
       IF p = NoPw
       THEN /\ resp' = Append(resp, send_response(PROTO_STATUS_ERROR, 0,
                                       "user lookup failed", <<>>, w))
            /\ hist' = hist \o << <<"getpwnam", "null">>, <<"send_response", "error">> >>
                            \o PamRelease \o << <<"bzero_password", "">> >>
            /\ password' = ZeroBuf(PasswordBufSz)
            /\ Return(1)
            /\ UNCHANGED pw
       ELSE /\ w = "full"
            /\ pw' = p
            /\ hist' = Append(hist, <<"getpwnam", "found">>)
            /\ pc' = "probe"
            /\ UNCHANGED <<resp, password, exitcode>>
  /\ UNCHANGED <<call, peer, startup, bridge_file, nread, header, user, session_id, motd, want_privileged, pipevars,
                 probe, childvars>>

(***************************************************************************)
(* The elevation probe: user_has_sudo and run_cmd_as_user_with_input.      *)
(***************************************************************************)
\* the timeout, in seconds, of the "sudo -k" run (line 655)
DropTicketTimeoutSec == 2
\* the polling interval of the wait loop in milliseconds (lines 607-608)
PollMs == 100

\* the wait status word 0, which WIFEXITED reads as "exited with 0"
StatusZero == [kind |-> "exit", code |-> 0]

\* probe.child: "none", "running", "zombie" (terminated, not yet waited for),
\* "reaped", or "gone" (terminated and discarded by the kernel without a wait);
\* probe.vres: how the "sudo -S -v" run ended, "exit0" when the polling wait
\* collected the probe child and it had exited with status 0
NoProbe == [child |-> "none", cstat |-> StatusZero, elapsed_ms |-> 0,
            status |-> StatusZero, timeout_sec |-> 0, phase |-> "none", vres |-> "none"]

\* the wait statuses a sudo run can end with
ProbeStatuses == {[kind |-> "exit", code |-> 0], [kind |-> "exit", code |-> 1],
                  [kind |-> "signal", code |-> 9]}

\* lines 617-621: the function's result from the status word
StatusToRc(status) ==
  IF status.kind = "exit" THEN status.code
  ELSE IF status.kind = "signal" THEN 128 + status.code
  ELSE -1

\* user_has_sudo returns v: the probe's locals go out of scope
ProbeReturn(v, pr) ==
  /\ want_privileged' = v
  /\ probe' = [pr EXCEPT !.elapsed_ms = 0, !.status = StatusZero, !.timeout_sec = 0]
  /\ hist' = Append(hist, <<"user_has_sudo", IF v = 1 THEN "1" ELSE "0">>)
  /\ pc' = "zero_password"

\* user_has_sudo 624-645 and run_cmd_as_user_with_input 543-596: nothing is run on
\* an empty password; otherwise the pipe and the fork may fail (the run returns -1)
\* or "sudo -S -v" is started as the user
HcProbeStart ==
  /\ pc = "probe"
  /\ \E r \in {"pipe_fail", "fork_fail", "forked"} :
       IF CStr(password) = <<>>
       THEN /\ r = "forked"
            /\ ProbeReturn(0, probe)
       ELSE IF r # "forked"
       THEN ProbeReturn(0, probe)
       ELSE /\ probe' = [NoProbe EXCEPT !.child = "running", !.phase = "validate",
                                        !.timeout_sec = ProbeTimeoutSec]
            /\ hist' = Append(hist, <<"probe_fork", "validate">>)
            /\ pc' = "probe_poll"
            /\ UNCHANGED want_privileged
  /\ UNCHANGED <<call, peer, startup, bridge_file, exitcode, resp, reqvars, motd, pw, pipevars, childvars>>

\* the sudo process ends
ProbeChildExit ==
  /\ probe.child = "running"
  /\ \E st \in ProbeStatuses : probe' = [probe EXCEPT !.child = "zombie", !.cstat = st]
  /\ UNCHANGED <<call, peer, startup, bridge_file, pc, exitcode, resp, hist, reqvars, motd, pw, want_privileged, pipevars,
                 childvars>>

\* lines 600-609: one round of the polling loop.  waitpid(pid, &status, WNOHANG)
\* returns the pid (r = "pid": the child had ended, status is filled in), 0 (still
\* running), -1 with EINTR, or -1 with another errno (r = "echild": the child ended
\* and the kernel kept no status for it, as when SIGCHLD is ignored); the last
\* leaves the loop with status as initialised.
HcProbePoll ==
  /\ pc = "probe_poll"
  /\ probe.elapsed_ms < probe.timeout_sec * 1000
  /\ \E r \in {"pid", "zero", "eintr", "echild"} :
       CASE r = "pid" ->
              /\ probe.child = "zombie"
              /\ probe' = [probe EXCEPT !.child = "reaped", !.status = probe.cstat,
                             !.vres = IF probe.phase = "validate"
                                      THEN (IF probe.cstat = StatusZero THEN "exit0"
                                            ELSE "other")
                                      ELSE @]
              /\ pc' = "probe_result"
         [] r = "zero" ->
              /\ probe.child = "running"
              /\ probe' = [probe EXCEPT !.elapsed_ms = @ + PollMs]
              /\ pc' = pc
         [] r = "eintr" ->
              /\ probe' = [probe EXCEPT !.elapsed_ms = @ + PollMs]
              /\ pc' = pc
         [] r = "echild" ->
              /\ probe.child = "zombie"
              /\ probe' = [probe EXCEPT !.child = "gone",
                             !.vres = IF probe.phase = "validate" THEN "other" ELSE @]
              /\ pc' = "probe_result"
  /\ UNCHANGED <<call, peer, startup, bridge_file, exitcode, resp, hist, reqvars, motd, pw, want_privileged, pipevars,
                 childvars>>

\* HcProbeTimeout that kills the child and returns without waiting for it
HcProbeTimeoutNoWait ==
  /\ pc = "probe_poll"
  /\ probe.elapsed_ms >= probe.timeout_sec * 1000
  /\ ProbeReturn(IF probe.phase = "validate" THEN 0 ELSE 1,
                 [probe EXCEPT !.child = "zombie",
                               !.vres = IF probe.phase = "validate" THEN "other" ELSE @])
  /\ UNCHANGED <<call, peer, startup, bridge_file, exitcode, resp, reqvars, motd, pw, pipevars, childvars>>

\* lines 610-615: on timeout the child is killed and waited for; the run returns -1,
\* which user_has_sudo reads as "no" for the first run and ignores for the second
HcProbeTimeout ==
  /\ pc = "probe_poll"
  /\ probe.elapsed_ms >= probe.timeout_sec * 1000
  /\ ProbeReturn(IF probe.phase = "validate" THEN 0 ELSE 1,
                 [probe EXCEPT !.child = "reaped",
                               !.vres = IF probe.phase = "validate" THEN "other" ELSE @])
  /\ UNCHANGED <<call, peer, startup, bridge_file, exitcode, resp, reqvars, motd, pw, pipevars, childvars>>

\* lines 617-621 and user_has_sudo 647-660: the run's result; after a first run that
\* returned 0, "sudo -k" is run the same way and user_has_sudo returns 1
HcProbeResult ==
  /\ pc = "probe_result"
  /\ \E r \in {"pipe_fail", "fork_fail", "forked"} :
       IF probe.phase = "validate" /\ StatusToRc(probe.status) = 0
       THEN IF r # "forked"
            THEN ProbeReturn(1, probe)
            ELSE /\ probe' = [probe EXCEPT !.child = "running", !.phase = "drop",
                                !.cstat = StatusZero, !.status = StatusZero,
                                !.elapsed_ms = 0,
                                !.timeout_sec = DropTicketTimeoutSec]
                 /\ hist' = Append(hist, <<"probe_fork", "drop">>)
                 /\ pc' = "probe_poll"
                 /\ UNCHANGED want_privileged
       ELSE /\ r = "forked"
            /\ ProbeReturn(IF probe.phase = "validate" THEN 0 ELSE 1, probe)
  /\ UNCHANGED <<call, peer, startup, bridge_file, exitcode, resp, reqvars, motd, pw, pipevars, childvars>>

(***************************************************************************)
(* handle_client from the probe's return to the fork.                      *)
(***************************************************************************)
\* HcZeroPassword with the buffer left as it is
HcZeroPasswordSkip ==
  /\ pc = "zero_password"
  /\ pc' = "validate_bridge"
  /\ UNCHANGED <<call, peer, startup, bridge_file, exitcode, resp, hist, reqvars, motd, pw, want_privileged, pipevars,
                 probe, childvars>>

\* handle_client 1262-1265: the password buffer is zeroised
HcZeroPassword ==
  /\ pc = "zero_password"
  /\ password' = ZeroBuf(PasswordBufSz)
  /\ hist' = Append(hist, <<"bzero_password", "">>)
  /\ pc' = "validate_bridge"
  /\ UNCHANGED <<call, peer, startup, bridge_file, exitcode, resp, nread, header, user, session_id, motd, pw,
                 want_privileged, pipevars, probe, childvars>>

\* open(): the lowest free descriptor now refers to o
OpenFd(t, o, cloexec) ==
  IF LowestFree(t) >= 0
  THEN [t EXCEPT ![LowestFree(t)] = [obj |-> o, cloexec |-> cloexec]]
  ELSE t
\* HcValidateBridge carrying on with a binary that failed validation
HcValidateBridgeLenient ==
  /\ pc = "validate_bridge"
  /\ \E b \in BridgeFiles :
       /\ bridge_file' = b
       /\ LowestFree(pfd) >= 0
       /\ bridge_fd' = LowestFree(pfd)
       /\ pfd' = OpenFd(pfd, "bridge", TRUE)
       /\ hist' = Append(hist, <<"open_and_validate_bridge",
                                 IF open_and_validate_bridge(b, 0) # 0 THEN "-1" ELSE "0">>)
       /\ pc' = "bootstrap_pipe"
  /\ UNCHANGED <<call, peer, startup, resp, exitcode, reqvars, motd, pw, want_privileged, bootstrap_pipe,
                 exec_status_pipe, execPipe, exec_status_n, probe, childvars>>

\* handle_client 1267-1275: the bridge binary is opened and validated, with root as
\* the required owner; the handle is O_CLOEXEC
HcValidateBridge ==
  /\ pc = "validate_bridge"
  /\ \E b \in BridgeFiles, w \in WriteOutcomes :
     /\ bridge_file' = b
     /\ IF open_and_validate_bridge(b, 0) # 0 \/ LowestFree(pfd) < 0
       THEN /\ resp' = Append(resp, send_response(PROTO_STATUS_ERROR, 0,
                                       "bridge validation failed", <<>>, w))
            /\ hist' = hist \o << <<"open_and_validate_bridge", "-1">>,
                                  <<"send_response", "error">> >> \o PamRelease
            /\ Return(1)
            /\ UNCHANGED <<pfd, bridge_fd>>
       ELSE /\ w = "full"
            /\ bridge_fd' = LowestFree(pfd)
            /\ pfd' = OpenFd(pfd, "bridge", TRUE)
            /\ hist' = Append(hist, <<"open_and_validate_bridge", "0">>)
            /\ pc' = "bootstrap_pipe"
            /\ UNCHANGED <<resp, exitcode>>
  /\ UNCHANGED <<call, peer, startup, reqvars, motd, pw, want_privileged, bootstrap_pipe, exec_status_pipe,
                 execPipe, exec_status_n, probe, childvars>>

\* pipe()/pipe2(): the two lowest free descriptors become the read and the write end
PipeOk(t) == LowestFree(t) >= 0 /\ LowestFree(OpenFd(t, "other", FALSE)) >= 0

PipeFds(t) == <<LowestFree(t), LowestFree(OpenFd(t, "other", FALSE))>>

PipeTab(t, r, w, cloexec) == OpenFd(OpenFd(t, r, cloexec), w, cloexec)

\* handle_client 1278-1288: the bootstrap pipe
HcBootstrapPipe ==
  /\ pc = "bootstrap_pipe"
  /\ \E ok \in BOOLEAN, w \in WriteOutcomes :
       IF ~ok \/ ~PipeOk(pfd)
       THEN /\ resp' = Append(resp, send_response(PROTO_STATUS_ERROR, 0,
                                       "failed to prepare bootstrap", <<>>, w))
            /\ pfd' = CloseFd(pfd, bridge_fd)
            /\ hist' = hist \o << <<"pipe", "-1">>, <<"send_response", "error">> >>
                            \o PamRelease
            /\ Return(1)
            /\ UNCHANGED bootstrap_pipe
       ELSE /\ w = "full"
            /\ bootstrap_pipe' = PipeFds(pfd)
            /\ pfd' = PipeTab(pfd, "bootstrap_r", "bootstrap_w", FALSE)
            /\ hist' = Append(hist, <<"pipe", "0">>)
            /\ pc' = "open_session"
            /\ UNCHANGED <<resp, exitcode>>
  /\ UNCHANGED <<call, peer, startup, bridge_file, reqvars, motd, pw, want_privileged, bridge_fd, exec_status_pipe,
                 execPipe, exec_status_n, probe, childvars>>

\* HcOpenSession carrying on whatever pam_open_session returned
HcOpenSessionLenient ==
  /\ pc = "open_session"
  /\ \E rc \in {"PAM_SUCCESS", "PAM_SESSION_ERR"} :
       /\ hist' = Append(hist, <<"pam_open_session", rc>>)
       /\ pc' = "exec_status_pipe"
  /\ UNCHANGED <<resp, exitcode, pfd>>
  /\ UNCHANGED <<call, peer, startup, bridge_file, reqvars, motd, pw, want_privileged, bridge_fd, bootstrap_pipe,
                 exec_status_pipe, execPipe, exec_status_n, probe, childvars>>

\* handle_client 1290-1301: pam_open_session
HcOpenSession ==
  /\ pc = "open_session"
  /\ \E rc \in {"PAM_SUCCESS", "PAM_SESSION_ERR"}, w \in WriteOutcomes :
       IF rc # "PAM_SUCCESS"
       THEN /\ pfd' = CloseFd(CloseFd(CloseFd(pfd, bootstrap_pipe[1]), bootstrap_pipe[2]),
                              bridge_fd)
            /\ resp' = Append(resp, send_response(PROTO_STATUS_ERROR, 0, rc, <<>>, w))
            /\ hist' = hist \o << <<"pam_open_session", rc>>, <<"send_response", "error">> >>
                            \o PamRelease
            /\ Return(1)
       ELSE /\ w = "full"
            /\ hist' = Append(hist, <<"pam_open_session", rc>>)
            /\ pc' = "exec_status_pipe"
            /\ UNCHANGED <<resp, exitcode, pfd>>
  /\ UNCHANGED <<call, peer, startup, bridge_file, reqvars, motd, pw, want_privileged, bridge_fd, bootstrap_pipe,
                 exec_status_pipe, execPipe, exec_status_n, probe, childvars>>

\* handle_client 1303-1319: the exec-status pipe, both ends O_CLOEXEC
HcExecStatusPipe ==
  /\ pc = "exec_status_pipe"
  /\ \E ok \in BOOLEAN, w \in WriteOutcomes :
       IF ~ok \/ ~PipeOk(pfd)
       THEN /\ pfd' = CloseFd(CloseFd(CloseFd(pfd, bootstrap_pipe[1]), bootstrap_pipe[2]),
                              bridge_fd)
            /\ resp' = Append(resp, send_response(PROTO_STATUS_ERROR, 0,
                                       "failed to prepare exec check", <<>>, w))
            /\ hist' = hist \o << <<"pipe2", "-1">>, <<"send_response", "error">> >>
                            \o PamCloseRelease
            /\ Return(1)
            /\ UNCHANGED exec_status_pipe
       ELSE /\ w = "full"
            /\ exec_status_pipe' = PipeFds(pfd)
            /\ pfd' = PipeTab(pfd, "exec_r", "exec_w", TRUE)
            /\ hist' = Append(hist, <<"pipe2", "0">>)
            /\ pc' = "spawn"
            /\ UNCHANGED <<resp, exitcode>>
  /\ UNCHANGED <<call, peer, startup, bridge_file, reqvars, motd, pw, want_privileged, bridge_fd, bootstrap_pipe,
                 execPipe, exec_status_n, probe, childvars>>

\* handle_client 1341-1363 and spawn_bridge_process 887-905: fork.  The child starts
\* with a copy of the broker's descriptors; the broker then closes the bootstrap read
\* end and the exec-status write end.  If fork fails, the broker answers and returns.
HcSpawn ==
  /\ pc = "spawn"
  /\ \E ok \in BOOLEAN, w \in WriteOutcomes :
       IF ~ok
       THEN /\ pfd' = CloseFd(CloseFd(CloseFd(CloseFd(CloseFd(pfd,
                         bootstrap_pipe[1]), exec_status_pipe[2]),
                         bootstrap_pipe[2]), exec_status_pipe[1]), bridge_fd)
            /\ resp' = Append(resp, send_response(PROTO_STATUS_ERROR, 0,
                                       "failed to spawn bridge", <<>>, w))
            /\ hist' = hist \o << <<"fork", "-1">>, <<"send_response", "error">> >>
                            \o PamCloseRelease
            /\ Return(1)
            /\ UNCHANGED childvars
       ELSE /\ w = "full"
            /\ fdt' = pfd
            /\ cpc' = "fd_move_exec_status"
            /\ orig_client' = STDIN_FILENO
            /\ orig_bootstrap' = bootstrap_pipe[1]
            /\ orig_exec_status' = exec_status_pipe[2]
            /\ orig_bridge' = bridge_fd
            /\ pfd' = CloseFd(CloseFd(pfd, bootstrap_pipe[1]), exec_status_pipe[2])
            /\ hist' = Append(hist, <<"fork", "child">>)
            /\ pc' = "write_bootstrap"
            /\ UNCHANGED <<resp, exitcode, cstatus, execd, tmp_exec_status, tmp_bridge,
                           cred, cenv>>
  /\ UNCHANGED <<call, peer, startup, bridge_file, reqvars, motd, pw, want_privileged, bridge_fd, bootstrap_pipe,
                 exec_status_pipe, execPipe, exec_status_n, probe>>

(***************************************************************************)
(* handle_client after the fork.                                           *)
(***************************************************************************)
\* kill(child, sig) on a child that has not ended yet.  A child still inside
\* spawn_bridge_process dies of the signal; so does any child hit by SIGKILL; an
\* exec'd bridge may catch SIGTERM and carry on until it ends by itself.
KillOutcomes(sig) ==
  IF cpc \in {"zombie", "reaped", "gone", "none"} THEN {"no effect"}
  ELSE IF cpc = "bridge" /\ sig = 15 THEN {"dies", "caught"}
  ELSE {"dies"}

Killed(sig, o) ==
  IF o = "dies"
  THEN /\ cpc' = "zombie"
       /\ cstatus' = [kind |-> "signal", code |-> sig]
       /\ fdt' = EmptyTable
  ELSE UNCHANGED <<cpc, cstatus, fdt>>
\* HcWriteBootstrap with the pipe's write end left open after a complete write
HcWriteBootstrapKeepOpen ==
  /\ pc = "write_bootstrap"
  /\ \E w \in WriteOutcomes :
       IF Holding(fdt, "bootstrap_r") = {}
       THEN /\ pfd' = CloseFd(CloseFd(CloseFd(pfd, bootstrap_pipe[2]),
                                      exec_status_pipe[1]), bridge_fd)
            /\ resp' = Append(resp, send_response(PROTO_STATUS_ERROR, 0,
                                       "bootstrap communication failed", <<>>, w))
            /\ hist' = hist \o << <<"write_bootstrap_binary", "-1">>,
                                  <<"send_response", "error">> >>
            /\ pc' = "bootstrap_failed_kill"
       ELSE /\ w = "full"
            /\ pfd' = CloseFd(pfd, bridge_fd)
            /\ hist' = Append(hist, <<"write_bootstrap_binary", "0">>)
            /\ pc' = "select"
            /\ UNCHANGED resp
  /\ UNCHANGED <<call, peer, startup, bridge_file, exitcode, reqvars, motd, pw, want_privileged, bridge_fd, bootstrap_pipe,
                 exec_status_pipe, execPipe, exec_status_n, probe, childvars>>

\* handle_client 1365-1392: the bootstrap is written to the pipe and the pipe closed.
\* The write fails when no descriptor of the child reads the pipe any more.  On
\* failure the error response is sent before the child is signalled.
HcWriteBootstrap ==
  /\ pc = "write_bootstrap"
  /\ \E w \in WriteOutcomes :
       IF Holding(fdt, "bootstrap_r") = {}
       THEN /\ pfd' = CloseFd(CloseFd(CloseFd(pfd, bootstrap_pipe[2]),
                                      exec_status_pipe[1]), bridge_fd)
            /\ resp' = Append(resp, send_response(PROTO_STATUS_ERROR, 0,
                                       "bootstrap communication failed", <<>>, w))
            /\ hist' = hist \o << <<"write_bootstrap_binary", "-1">>,
                                  <<"send_response", "error">> >>
            /\ pc' = "bootstrap_failed_kill"
       ELSE /\ w = "full"
            /\ pfd' = CloseFd(CloseFd(pfd, bootstrap_pipe[2]), bridge_fd)
            /\ hist' = Append(hist, <<"write_bootstrap_binary", "0">>)
            /\ pc' = "select"
            /\ UNCHANGED resp
  /\ UNCHANGED <<call, peer, startup, bridge_file, exitcode, reqvars, motd, pw, want_privileged, bridge_fd, bootstrap_pipe,
                 exec_status_pipe, execPipe, exec_status_n, probe, childvars>>

\* handle_client 1383: kill(child, SIGTERM)
HcBootstrapFailedKill ==
  /\ pc = "bootstrap_failed_kill"
  /\ \E o \in KillOutcomes(15) : Killed(15, o)
  /\ hist' = Append(hist, <<"kill", "SIGTERM">>)
  /\ pc' = "bootstrap_failed_wait"
  /\ UNCHANGED <<cred, cenv, call, peer, startup, bridge_file, exitcode, resp, reqvars, motd, pw, want_privileged, pipevars, probe,
                 execd, fdlocals>>

\* handle_client 1384-1388: waitpid returns once the child has ended, then the
\* verifier is released
HcBootstrapFailedWait ==
  /\ pc = "bootstrap_failed_wait"
  /\ cpc = "zombie"
  /\ cpc' = "reaped"
  /\ hist' = hist \o << <<"waitpid", "bridge">> >> \o PamCloseRelease
  /\ Return(1)
  /\ UNCHANGED <<cred, cenv, call, peer, startup, bridge_file, resp, reqvars, motd, pw, want_privileged, pipevars, probe,
                 fdt, cstatus, execd, fdlocals>>

\* HcSelect waiting without a timeout, and never failing
HcSelectNoTimeout ==
  /\ pc = "select"
  /\ execPipe > 0 \/ ExecWriters = {}
  /\ pc' = "read_exec_status"
  /\ hist' = Append(hist, <<"select", "1">>)
  /\ UNCHANGED <<call, peer, startup, bridge_file, exitcode, resp, reqvars, motd, pw, want_privileged, pipevars, probe,
                 childvars>>

\* handle_client 1396-1411: select on the exec-status read end.  It is readable when a
\* byte waits or when no write end is left open (EOF); otherwise the wait can run
\* into BRIDGE_START_TIMEOUT_MS; select can also fail.
HcSelect ==
  /\ pc = "select"
  /\ \E r \in {"ready", "timeout", "error"} :
       CASE r = "ready" ->
              /\ execPipe > 0 \/ ExecWriters = {}
              /\ pc' = "read_exec_status"
              /\ hist' = Append(hist, <<"select", "1">>)
         [] r = "timeout" ->
              /\ ~(execPipe > 0 \/ ExecWriters = {})
              /\ pc' = "exec_timeout"
              /\ hist' = Append(hist, <<"select", "0">>)
         [] r = "error" ->
              /\ pc' = "exec_select_failed"
              /\ hist' = Append(hist, <<"select", "-1">>)
  /\ UNCHANGED <<call, peer, startup, bridge_file, exitcode, resp, reqvars, motd, pw, want_privileged, pipevars, probe,
                 childvars>>
\* KillReapFail with the error response sent before the child is killed
KillReapFailRespondFirst(error) ==
  /\ pfd' = CloseFd(pfd, exec_status_pipe[1])
  /\ cpc' = "reaped"
  /\ cstatus' = IF "dies" \in KillOutcomes(9) THEN [kind |-> "signal", code |-> 9]
                ELSE cstatus
  /\ fdt' = EmptyTable
  /\ \E w \in WriteOutcomes :
       resp' = Append(resp, send_response(PROTO_STATUS_ERROR, 0, error, <<>>, w))
  /\ hist' = hist \o << <<"send_response", "error">>, <<"kill", "SIGKILL">>,
                        <<"waitpid", "bridge">> >> \o PamCloseRelease
  /\ Return(1)
  /\ UNCHANGED <<cred, cenv, call, peer, startup, bridge_file, reqvars, motd, pw, want_privileged, bridge_fd, bootstrap_pipe,
                 exec_status_pipe, execPipe, exec_status_n, probe, execd, fdlocals>>

\* handle_client 1416-1425 and 1431-1440: the read end is closed, the child is killed
\* with SIGKILL and reaped, and only then the error response is sent
KillReapFail(error) ==
  /\ pfd' = CloseFd(pfd, exec_status_pipe[1])
  /\ cpc' = "reaped"
  /\ cstatus' = IF "dies" \in KillOutcomes(9) THEN [kind |-> "signal", code |-> 9]
                ELSE cstatus
  /\ fdt' = EmptyTable
  /\ \E w \in WriteOutcomes :
       resp' = Append(resp, send_response(PROTO_STATUS_ERROR, 0, error, <<>>, w))
  /\ hist' = hist \o << <<"kill", "SIGKILL">>, <<"waitpid", "bridge">>,
                        <<"send_response", "error">> >> \o PamCloseRelease
  /\ Return(1)
  /\ UNCHANGED <<cred, cenv, call, peer, startup, bridge_file, reqvars, motd, pw, want_privileged, bridge_fd, bootstrap_pipe,
                 exec_status_pipe, execPipe, exec_status_n, probe, execd, fdlocals>>

HcExecTimeout ==
  /\ pc = "exec_timeout"
  /\ KillReapFail("bridge start timeout")

HcExecSelectFailed ==
  /\ pc = "exec_select_failed"
  /\ KillReapFail("bridge exec status failed")

\* handle_client 1443-1449: one byte is read from the exec-status pipe, which is
\* then closed; the read returns 1 with a byte, 0 at EOF
HcReadExecStatus ==
  /\ pc = "read_exec_status"
  /\ execPipe > 0 \/ ExecWriters = {}
  /\ exec_status_n' = IF execPipe > 0 THEN 1 ELSE 0
  /\ execPipe' = IF execPipe > 0 THEN execPipe - 1 ELSE 0
  /\ pfd' = CloseFd(pfd, exec_status_pipe[1])
  /\ hist' = Append(hist, <<"read_exec_status", IF execPipe > 0 THEN "1" ELSE "0">>)
  /\ pc' = IF execPipe > 0 THEN "exec_failed" ELSE "send_ok"
  /\ UNCHANGED <<call, peer, startup, bridge_file, exitcode, resp, reqvars, motd, pw, want_privileged, bridge_fd,
                 bootstrap_pipe, exec_status_pipe, probe, childvars>>

\* handle_client 1451-1455: a byte came, the error response is sent
HcExecFailed ==
  /\ pc = "exec_failed"
  /\ \E w \in WriteOutcomes :
       resp' = Append(resp, send_response(PROTO_STATUS_ERROR, 0, "bridge exec failed",
                                          <<>>, w))
  /\ hist' = Append(hist, <<"send_response", "error">>)
  /\ pc' = "exec_failed_wait"
  /\ UNCHANGED <<call, peer, startup, bridge_file, exitcode, reqvars, motd, pw, want_privileged, pipevars, probe, childvars>>

\* handle_client 1457-1461: the child is reaped and the verifier released
HcExecFailedWait ==
  /\ pc = "exec_failed_wait"
  /\ cpc = "zombie"
  /\ cpc' = "reaped"
  /\ hist' = hist \o << <<"waitpid", "bridge">> >> \o PamCloseRelease
  /\ Return(1)
  /\ UNCHANGED <<cred, cenv, call, peer, startup, bridge_file, resp, reqvars, motd, pw, want_privileged, pipevars, probe,
                 fdt, cstatus, execd, fdlocals>>

\* handle_client 1466-1470: a trailing newline of the MOTD is cut off
TrimMotd(m) ==
  IF Len(m) > 0 /\ m[Len(m)] = 10 THEN SubSeq(m, 1, Len(m) - 1) ELSE m

\* handle_client 1463-1481: no byte came, the success response is sent
HcSendOk ==
  /\ pc = "send_ok"
  /\ motd' = TrimMotd(motd)
  /\ \E w \in WriteOutcomes :
       resp' = Append(resp, send_response(PROTO_STATUS_OK,
                               IF want_privileged = 1 THEN PROTO_MODE_PRIVILEGED
                               ELSE PROTO_MODE_UNPRIVILEGED,
                               "", TrimMotd(motd), w))
  /\ hist' = Append(hist, <<"send_response", "ok">>)
  /\ pc' = "wait_child"
  /\ UNCHANGED <<call, peer, startup, bridge_file, exitcode, reqvars, pw, want_privileged, pipevars, probe, childvars>>

\* handle_client 1488-1492: the exit code from the child's wait status
ExitCodeOf(status) ==
  IF status.kind = "exit" THEN status.code ELSE 128 + status.code
\* HcWaitChild with a second record written to the peer once the bridge has ended
HcWaitChildReport ==
  /\ pc = "wait_child"
  /\ cpc = "zombie"
  /\ cpc' = "reaped"
  /\ resp' = Append(resp, send_response(PROTO_STATUS_ERROR, 0, "bridge exited", <<>>, "full"))
  /\ hist' = hist \o << <<"waitpid", "bridge">>, <<"send_response", "error">> >>
                  \o PamCloseRelease
  /\ Return(ExitCodeOf(cstatus))
  /\ UNCHANGED <<cred, cenv, call, peer, startup, bridge_file, reqvars, motd, pw, want_privileged, pipevars, probe,
                 fdt, cstatus, execd, fdlocals>>
\* HcWaitChild with a read from the client connection once the bridge has ended
HcWaitChildDrain ==
  /\ pc = "wait_child"
  /\ cpc = "zombie"
  /\ cpc' = "reaped"
  /\ nread' = nread + 1
  /\ hist' = hist \o << <<"waitpid", "bridge">>, <<"read_all", "client">> >>
                  \o PamCloseRelease
  /\ Return(ExitCodeOf(cstatus))
  /\ UNCHANGED <<cred, cenv, call, peer, startup, bridge_file, resp, header, user, password,
                 session_id, motd, pw, want_privileged, pipevars, probe,
                 fdt, cstatus, execd, fdlocals>>

\* handle_client 1483-1503: the broker waits for the bridge to end, releases the
\* verifier and returns the exit code it reads from status.  waitpid returns the pid
\* (r = "pid": status is filled in) or, the child having ended and the kernel having
\* kept no status for it (as when SIGCHLD is ignored), -1 with ECHILD (r = "echild"):
\* the loop ends on any error but EINTR and status stays as initialised, 0.
HcWaitChild ==
  /\ pc = "wait_child"
  /\ cpc = "zombie"
  /\ \E r \in {"pid", "echild"} :
       /\ cpc' = IF r = "pid" THEN "reaped" ELSE "gone"
       /\ hist' = hist \o << <<"waitpid", IF r = "pid" THEN "bridge" ELSE "ECHILD">> >>
                       \o PamCloseRelease
       /\ Return(ExitCodeOf(IF r = "pid" THEN cstatus ELSE StatusZero))
  /\ UNCHANGED <<cred, cenv, call, peer, startup, bridge_file, resp, reqvars, motd, pw, want_privileged, pipevars, probe,
                 fdt, cstatus, execd, fdlocals>>

(***************************************************************************)
(* The broker serving one connection, with its bridge child.               *)
(***************************************************************************)
\* The descriptors the service manager hands the broker: the accepted connection as
\* stdin and stdout, the journal as stderr (main calls handle_client(0, 1)).
BrokerTable ==
  [f \in Fds |-> IF f \in {STDIN_FILENO, STDOUT_FILENO}
                 THEN [obj |-> "client", cloexec |-> FALSE]
                 ELSE IF f = STDERR_FILENO THEN [obj |-> "stderr", cloexec |-> FALSE]
                 ELSE NoFd]
\* no function is run on its own
NoCall == [fn |-> "none"]

\* the broker before its first step, but for the passwd entry p and the mode wp
InitServed(p, wp) ==
  /\ pc = "main"
  /\ exitcode = -1
  /\ resp = <<>>
  /\ hist = <<>>
  /\ nread = 0
  /\ header = "none"
  /\ user = ZeroBuf(UserBufSz)
  /\ password = ZeroBuf(PasswordBufSz)
  /\ session_id = ZeroBuf(SessionIdBufSz)
  /\ motd = <<>>
  /\ pw = p
  /\ want_privileged = wp
  /\ bridge_fd = -1
  /\ bootstrap_pipe = <<-1, -1>>
  /\ exec_status_pipe = <<-1, -1>>
  /\ execPipe = 0
  /\ exec_status_n = -1
  /\ probe = NoProbe
  /\ bridge_file = NoFile

InitBroker == InitServed(NoPw, 0)

InitChild ==
  /\ fdt = EmptyTable
  /\ cpc = "none"
  /\ cstatus = StatusZero
  /\ execd = FALSE
  /\ cred = RootCred
  /\ cenv = ServiceEnv
  /\ orig_client = -1
  /\ orig_bootstrap = -1
  /\ orig_exec_status = -1
  /\ orig_bridge = -1
  /\ tmp_exec_status = -1
  /\ tmp_bridge = -1

Init ==
  /\ call = NoCall
  /\ InitBroker
  /\ pfd = BrokerTable
  /\ peer \in ServicePeers
  /\ startup \in Startups
  /\ InitChild

BrokerNext ==
  \/ Main
  \/ HcReadHeader
  \/ HcCheckMagic
  \/ HcReadFields
  \/ HcValidateFields
  \/ HcPamStart
  \/ HcPamAuth
  \/ HcGetpwnam
  \/ HcProbeStart
  \/ ProbeChildExit
  \/ HcProbePoll
  \/ HcProbeTimeout
  \/ HcProbeResult
  \/ HcZeroPassword
  \/ HcValidateBridge
  \/ HcBootstrapPipe
  \/ HcOpenSession
  \/ HcExecStatusPipe
  \/ HcSpawn
  \/ HcWriteBootstrap
  \/ HcBootstrapFailedKill
  \/ HcBootstrapFailedWait
  \/ HcSelect
  \/ HcExecTimeout
  \/ HcExecSelectFailed
  \/ HcReadExecStatus
  \/ HcExecFailed
  \/ HcExecFailedWait
  \/ HcSendOk
  \/ HcWaitChild

Next == BrokerNext \/ ChildNext

Spec == Init /\ [][Next]_vars

\* the broker's steps between the fork and its response: none of them waits for the
\* child without a limit (the bootstrap fits the pipe, select has the start timeout,
\* the read follows a select that found the pipe readable, SIGKILL ends the child
\* that is waited for), so a broker that is scheduled takes them
AfterFork ==
  \/ HcWriteBootstrap
  \/ HcSelect
  \/ HcExecTimeout
  \/ HcExecSelectFailed
  \/ HcReadExecStatus
  \/ HcExecFailed
  \/ HcSendOk

\* the broker is scheduled fairly; nothing is assumed of the child
SpecLive == Init /\ [][Next]_vars /\ WF_vars(AfterFork)

(***************************************************************************)
(* spawn_bridge_process's child on its own, started from any placement of  *)
(* its four source descriptors.                                            *)
(***************************************************************************)
\* where a source descriptor may sit: fd 0 or any of 3..MaxSrcFd (1 and 2 are the
\* caller's stdout and stderr)
PlacementFds == {STDIN_FILENO} \cup (CLIENT_CONN_FD..MaxSrcFd)

\* the arguments of spawn_bridge_process: four distinct descriptors
Placements ==
  {p \in [client : PlacementFds, bootstrap : PlacementFds,
          exec_status : PlacementFds, bridge : PlacementFds] :
     Cardinality({p.client, p.bootstrap, p.exec_status, p.bridge}) = 4}

\* the child's table just after fork for placement p; of the other places, those in
\* busy hold unrelated open descriptors and the rest are free.  The exec-status write
\* end and the bridge handle were opened close-on-exec.
PlacedTable(p, busy) ==
  [f \in Fds |->
     IF f = p.client THEN [obj |-> "client", cloexec |-> FALSE]
     ELSE IF f = p.bootstrap THEN [obj |-> "bootstrap_r", cloexec |-> FALSE]
     ELSE IF f = p.exec_status THEN [obj |-> "exec_w", cloexec |-> TRUE]
     ELSE IF f = p.bridge THEN [obj |-> "bridge", cloexec |-> TRUE]
     ELSE IF f = STDOUT_FILENO THEN [obj |-> "other", cloexec |-> FALSE]
     ELSE IF f = STDERR_FILENO THEN [obj |-> "stderr", cloexec |-> FALSE]
     ELSE IF f \in busy THEN [obj |-> "other", cloexec |-> FALSE]
     ELSE NoFd]

\* the broker side, reduced to what the child can see of it: the read end of the
\* exec-status pipe is open in the broker
ReaderTable == [EmptyTable EXCEPT ![CLIENT_CONN_FD] = [obj |-> "exec_r", cloexec |-> TRUE]]

InitFd ==
  /\ call = NoCall
  /\ InitServed([uid |-> 1000, gid |-> 1000, name |-> UserName, dir |-> UserHome], 0)
  /\ pfd = ReaderTable
  /\ peer \in {c \in ServicePeers : check_peer_creds(c) = 0}
  /\ startup = ServiceStartup
  /\ cred = RootCred
  /\ cenv = ServiceEnv
  /\ cstatus = StatusZero
  /\ execd = FALSE
  /\ cpc = "fd_move_exec_status"
  /\ tmp_exec_status = -1
  /\ tmp_bridge = -1
  /\ \E p \in Placements, busy \in SUBSET PlacementFds :
       /\ fdt = PlacedTable(p, busy)
       /\ orig_client = p.client
       /\ orig_bootstrap = p.bootstrap
       /\ orig_exec_status = p.exec_status
       /\ orig_bridge = p.bridge

NextFd == ChildNext

SpecFd == InitFd /\ [][NextFd]_vars

(***************************************************************************)
(* spawn_bridge_process's child on its own, started as handle_client forks *)
(* it, for any environment and credentials of the broker, either mode and  *)
(* either user.                                                            *)
(***************************************************************************)
\* the descriptors as handle_client leaves them at fork: the connection on 0, 1, the
\* bridge handle on 3, the bootstrap pipe on 4, 5, the exec-status pipe on 6, 7
ServicePlacement == [client |-> 0, bootstrap |-> 4, exec_status |-> 7, bridge |-> 3]

InitLaunch ==
  /\ call = NoCall
  /\ \E p \in PwEntries \ {NoPw}, wp \in {0, 1} : InitServed(p, wp)
  /\ pfd = ReaderTable
  /\ peer \in {c \in ServicePeers : check_peer_creds(c) = 0}
  /\ startup = ServiceStartup
  /\ cred \in BrokerCreds
  /\ cenv \in BrokerEnvs
  /\ cstatus = StatusZero
  /\ execd = FALSE
  /\ cpc = "fd_move_exec_status"
  /\ tmp_exec_status = -1
  /\ tmp_bridge = -1
  /\ fdt = PlacedTable(ServicePlacement, {5, 6})
  /\ orig_client = ServicePlacement.client
  /\ orig_bootstrap = ServicePlacement.bootstrap
  /\ orig_exec_status = ServicePlacement.exec_status
  /\ orig_bridge = ServicePlacement.bridge

NextLaunch == ChildNext

SpecLaunch == InitLaunch /\ [][NextLaunch]_vars

\* the layout the bridge is to be exec'd with
FixedLayout(t) ==
  /\ t[STDIN_FILENO].obj = "bootstrap_r"
  /\ IsOpen(t, STDERR_FILENO)
  /\ t[STDOUT_FILENO].obj = t[STDERR_FILENO].obj
  /\ t[CLIENT_CONN_FD].obj = "client"
  /\ t[EXEC_STATUS_FD].obj = "exec_w"
  /\ t[BRIDGE_FD].obj = "bridge"
  /\ \A f \in Fds : f > BRIDGE_FD => ~IsOpen(t, f)

(***************************************************************************)
(* Properties.                                                             *)
(***************************************************************************)
\* the broker has made call c
Called(c) == \E i \in DOMAIN hist : hist[i][1] = c

\* the broker has made call c with argument or result a
CalledWith(c, a) == \E i \in DOMAIN hist : hist[i] = <<c, a>>

\* how often the broker has made call c
Count(c) == Cardinality({i \in DOMAIN hist : hist[i][1] = c})

\* C1: a response with status ok is written only after the forked child has
\* completed a successful exec of the bridge (it did not end before reaching exec)
\* and the broker has read EOF on the exec-status pipe.
C1_OkOnlyAfterExec ==
  \A i \in DOMAIN resp :
    resp[i].status = PROTO_STATUS_OK => (resp[i].after_exec /\ exec_status_n = 0)

\* C2: whenever an error response has been written, the bridge has not been
\* exec'd for this connection, neither before the error was written nor after it.
C2_ErrorMeansBridgeNeverRuns ==
  \A i \in DOMAIN resp : resp[i].status = PROTO_STATUS_ERROR => ~execd

C4_NoWriteAfterExec == \A i \in DOMAIN resp : ~resp[i].after_exec

\* C4, amended: once the bridge child has exec'd the broker writes at most one record
\* to the peer, the connection's response, and it writes nothing after an ok response.
C4_SingleWriteAfterExec ==
  /\ Cardinality({i \in DOMAIN resp : resp[i].after_exec}) <= 1
  /\ \A i \in DOMAIN resp : resp[i].status = PROTO_STATUS_OK => i = Len(resp)

\* the ok response was written while the exec'd bridge held the connection
C4_Witness ==
  /\ pc = "done"
  /\ \E i \in DOMAIN resp : resp[i].status = PROTO_STATUS_OK /\ resp[i].after_exec

\* C5: when open_and_validate_bridge rejects the binary, the peer gets status 1 with
\* "bridge validation failed", no child is forked, the credentials are deleted and
\* the verifier context released (those being the last calls), and the broker exits
\* with code 1.
C5_ValidationFailureSpawnsNothing ==
  CalledWith("open_and_validate_bridge", "-1") =>
    /\ pc = "done"
    /\ exitcode = 1
    /\ Len(resp) = 1
    /\ resp[1].status = PROTO_STATUS_ERROR
    /\ resp[1].error = "bridge validation failed"
    /\ ~Called("fork")
    /\ cpc = "none"
    /\ Count("pam_end") = 1
    /\ SubSeq(hist, Len(hist) - 3, Len(hist)) =
         << <<"open_and_validate_bridge", "-1">>, <<"send_response", "error">>,
            <<"pam_setcred_delete", "">>, <<"pam_end", "PAM_SUCCESS">> >>

\* the binary was rejected and the broker has returned
C5_Witness ==
  /\ CalledWith("open_and_validate_bridge", "-1")
  /\ exitcode = 1

\* C6: user_has_sudo answers "privileged" if and only if the "sudo -S -v" process
\* was seen to exit with status zero before the timeout; every other outcome, a
\* failed wait on the probe child included, answers "unprivileged".
C6_PrivilegedIffProbeExitZero ==
  Called("user_has_sudo") => (want_privileged = 1 <=> probe.vres = "exit0")

BeforeZeroise ==
  {"main", "read_header", "check_magic", "read_fields", "validate_fields", "pam_start",
   "pam_auth", "getpwnam", "probe", "probe_poll", "probe_result", "zero_password"}

\* the calls that must not see the password
AfterZeroiseCalls == {"open_and_validate_bridge", "pipe", "pam_open_session", "pipe2", "fork"}

\* C8: when handle_client has returned the password buffer is all zero; the buffer
\* is zeroised directly after user_has_sudo returns, and it is zero from then on,
\* through binary validation, pipe creation, session open and fork.
C8_PasswordZeroised ==
  /\ pc = "done" => AllZero(password)
  /\ pc \notin BeforeZeroise => AllZero(password)
  /\ \A i \in DOMAIN hist :
       /\ (hist[i][1] = "user_has_sudo" /\ i < Len(hist))
            => hist[i + 1] = <<"bzero_password", "">>
       /\ hist[i][1] \in AfterZeroiseCalls
            => \E j \in 1..(i - 1) : hist[j][1] = "bzero_password"

\* a request whose password was used by the probe and whose bridge was forked
C8_Witness ==
  /\ pc = "done"
  /\ CalledWith("user_has_sudo", "1")
  /\ CalledWith("fork", "child")

\* C9: while the password buffer holds password bytes it is memory-locked: the
\* broker has called mlock on it.
C9_PasswordLockedWhileHeld == ~AllZero(password) => Called("mlock")

\* C10: pam_end is never called twice; when handle_client returns after a
\* successful pam_start it has called pam_end exactly once; and when it returns, no
\* child it forked (bridge or probe) is left running or unreaped.
C10_ReleasedAndReaped ==
  /\ Count("pam_end") <= 1
  /\ (pc = "done" /\ CalledWith("pam_start", "PAM_SUCCESS")) => Count("pam_end") = 1
  /\ pc = "done" => /\ cpc \in {"none", "reaped", "gone"}
                    /\ probe.child \notin {"running", "zombie"}
  /\ (pc = "done" /\ CalledWith("fork", "child")) => cpc \in {"reaped", "gone"}

\* the broker gave up on a child that was still running: killed, reaped, released
C10_Witness ==
  /\ pc = "done"
  /\ CalledWith("kill", "SIGKILL")
  /\ cpc = "reaped"
  /\ cstatus = [kind |-> "signal", code |-> 9]
  /\ Count("pam_end") = 1

\* every call c of the broker's history comes after some call d
Preceded(c, d) ==
  \A i \in DOMAIN hist :
    hist[i][1] = c => \E j \in 1..(i - 1) : hist[j][1] = d

\* C11: once pam_open_session has succeeded, handle_client returns having called
\* pam_close_session, pam_setcred(delete) and pam_end as its last three calls, in
\* that order and each exactly once, and after the wait on a forked child; when the
\* session was never opened pam_close_session is never called.
C11_CloseDeleteEndInOrder ==
  /\ Count("pam_close_session") <= 1
  /\ Count("pam_setcred_delete") <= 1
  /\ ~CalledWith("pam_open_session", "PAM_SUCCESS") => ~Called("pam_close_session")
  /\ (pc = "done" /\ CalledWith("pam_open_session", "PAM_SUCCESS")) =>
       /\ Len(hist) >= 3
       /\ SubSeq(hist, Len(hist) - 2, Len(hist)) =
            << <<"pam_close_session", "">>, <<"pam_setcred_delete", "">>,
               <<"pam_end", "PAM_SUCCESS">> >>
       /\ Count("pam_end") = 1
       /\ CalledWith("fork", "child") =>
            (cpc \in {"reaped", "gone"} /\ Preceded("pam_close_session", "waitpid"))

\* a session was opened, a child forked and reaped, and the broker has returned
C11_Witness ==
  /\ pc = "done"
  /\ CalledWith("pam_open_session", "PAM_SUCCESS")
  /\ CalledWith("fork", "child")
  /\ Called("pam_close_session")

\* the positions of handle_client inside user_has_sudo
InProbe == {"probe", "probe_poll", "probe_result"}

\* C12: the probe is started only after pam_setcred(establish) has succeeded, and
\* pam_open_session is called only after user_has_sudo has returned; no return of
\* handle_client leaves an opened session unclosed.
C12_SetcredProbeThenSession ==
  /\ Preceded("probe_fork", "pam_setcred_establish")
  /\ Preceded("user_has_sudo", "pam_setcred_establish")
  /\ pc \in InProbe => CalledWith("pam_setcred_establish", "PAM_SUCCESS")
  /\ pc \in InProbe => ~Called("pam_open_session")
  /\ Preceded("pam_open_session", "user_has_sudo")
  /\ (pc = "done" /\ CalledWith("pam_open_session", "PAM_SUCCESS"))
       => Called("pam_close_session")

\* the probe ran and the request then failed before the session was opened
C12_Witness ==
  /\ pc = "done"
  /\ Called("probe_fork")
  /\ CalledWith("open_and_validate_bridge", "-1")

\* ---------------------------------------------------------------------------
\* The startup gates alone, for every peer
\* ---------------------------------------------------------------------------

InitGate ==
  /\ call = NoCall
  /\ InitBroker
  /\ pfd = BrokerTable
  /\ peer \in PeerCreds
  /\ startup \in Startups
  /\ InitChild

NextGate == Main

SpecGate == InitGate /\ [][NextGate]_vars

\* the user database resolved the groups of the peer's user
GroupsResolved(u) == u.pwok /\ (Len(u.groups) > NGroupsInitial => u.retry = "ok")

\* the peer is root, or has the socket group as its gid, or has it among its user's
\* configured groups
PeerAllowed(c) ==
  /\ c.sockopt
  /\ \/ c.uid = 0
     \/ /\ c.grgid >= 0
        /\ \/ c.gid = c.grgid
           \/ /\ GroupsResolved(c.user)
              /\ \E i \in DOMAIN c.user.groups : c.user.groups[i] = c.grgid

\* C13: the peer-credential check accepts a connection if and only if the peer's uid
\* is 0, or its gid is the socket group's, or the configured group list of its user
\* contains the socket group; unreadable credentials, a missing socket group and
\* unresolvable groups reject.
C13_PeerAcceptedIffAllowed ==
  /\ CalledWith("main", "handle_client") => PeerAllowed(peer)
  /\ CalledWith("main", "peer rejected") => ~PeerAllowed(peer)
  /\ (check_peer_creds(peer) = 0) <=> PeerAllowed(peer)

C13_Witness ==
  /\ CalledWith("main", "handle_client")
  /\ peer.uid # 0
  /\ peer.gid # peer.grgid
  /\ Len(peer.user.groups) > NGroupsInitial

\* every startup gate lets the broker through
GatesPassed == startup.euid = 0 /\ ~startup.tty /\ check_peer_creds(peer) = 0

\* nothing of the request has been read and no buffer holds anything
NothingRead ==
  /\ nread = 0
  /\ header = "none"
  /\ ~Called("read_header")
  /\ AllZero(user) /\ AllZero(password) /\ AllZero(session_id)
  /\ resp = <<>>

\* the exit code of a broker a gate has stopped
GateExit ==
  IF startup.euid # 0 THEN 126
  ELSE IF startup.tty THEN 2
  ELSE 1

\* C14 as stated: no request byte is read and no secret handled before the gates
\* have all passed, and a broker whose effective uid is not 0 exits with 126, one
\* whose stdin is a terminal with 2, one whose peer is rejected with 1.
C14_GateExitAlways ==
  /\ ~GatesPassed => NothingRead
  /\ (~GatesPassed /\ pc = "done") => exitcode = GateExit

\* C14: no request byte is read and no secret handled before the gates have all
\* passed; started without the version argument, a broker whose effective uid is
\* not 0 exits with 126, one whose stdin is a terminal with 2, one whose peer is
\* rejected with 1, each as its only step and without having read a request byte.
C14_NoReadBeforeGates ==
  /\ ~GatesPassed => (NothingRead /\ pc \in {"main", "done"})
  /\ (~GatesPassed /\ ~startup.version /\ pc = "done") =>
       (exitcode = GateExit /\ Len(hist) = 1 /\ hist[1][1] = "main")
  /\ ~NothingRead => (GatesPassed /\ ~startup.version /\ CalledWith("main", "handle_client"))

C14_Witness ==
  /\ pc = "done"
  /\ exitcode = 1
  /\ startup.euid = 0 /\ ~startup.tty /\ ~startup.version
  /\ check_peer_creds(peer) # 0

\* the success response has been sent
OkSent == \E i \in DOMAIN resp : resp[i].status = PROTO_STATUS_OK

\* C15: after a success response the broker's exit code is the bridge child's exit
\* status when it exited normally, 128 + the signal number when a signal ended it,
\* and 1 when the wait on the child failed; on every failure of a request the exit
\* code is 1; so a broker that has served a request exits 0 only if the bridge
\* exited normally with status 0.
C15_ExitCodeIsBridgeStatus ==
  /\ (pc = "done" /\ OkSent /\ CalledWith("waitpid", "bridge")) => exitcode = ExitCodeOf(cstatus)
  /\ (pc = "done" /\ OkSent /\ CalledWith("waitpid", "ECHILD")) => exitcode = 1
  /\ (pc = "done" /\ CalledWith("main", "handle_client") /\ ~OkSent) => exitcode = 1
  /\ (pc = "done" /\ CalledWith("main", "handle_client") /\ exitcode = 0) =>
       (OkSent /\ cpc = "reaped" /\ cstatus = StatusZero)

\* the broker has read the byte of a failed exec and returned
ExecFailureReported == pc = "done" /\ exec_status_n = 1

\* what the broker does on reading the byte: the response "bridge exec failed" and
\* nothing else, the reaped child, the released verifier, exit code 1
ExecFailureHandled ==
  /\ Len(resp) = 1
  /\ resp[1].status = PROTO_STATUS_ERROR
  /\ resp[1].error = "bridge exec failed"
  /\ ~execd
  /\ cpc = "reaped"
  /\ cstatus = [kind |-> "exit", code |-> 127]
  /\ Len(hist) >= 5
  /\ SubSeq(hist, Len(hist) - 4, Len(hist)) =
       << <<"send_response", "error">>, <<"waitpid", "bridge">>,
          <<"pam_close_session", "">>, <<"pam_setcred_delete", "">>,
          <<"pam_end", "PAM_SUCCESS">> >>
  /\ exitcode = 1

\* the bytes the child has written to the exec-status pipe: those still in it and
\* the one the broker has read
ExecBytesWritten == execPipe + (IF exec_status_n = 1 THEN 1 ELSE 0)

ExecTimedOut == CalledWith("select", "0")

\* C17: when the exec-status wait times out the broker sends SIGKILL to the child,
\* reaps it, and then sends the error response "bridge start timeout", in this
\* order; it then releases the verifier and exits with 1, and never sends a success
\* response on that path.
C17_TimeoutKillReapRespond ==
  /\ ExecTimedOut => ~OkSent
  /\ (ExecTimedOut /\ pc # "done") => (pc = "exec_timeout" /\ resp = <<>>)
  /\ (ExecTimedOut /\ pc = "done") =>
       /\ Len(hist) >= 6
       /\ SubSeq(hist, Len(hist) - 5, Len(hist)) =
            << <<"kill", "SIGKILL">>, <<"waitpid", "bridge">>, <<"send_response", "error">>,
               <<"pam_close_session", "">>, <<"pam_setcred_delete", "">>,
               <<"pam_end", "PAM_SUCCESS">> >>
       /\ hist[Len(hist) - 6] = <<"select", "0">>
       /\ Len(resp) = 1
       /\ resp[1].status = PROTO_STATUS_ERROR
       /\ resp[1].error = "bridge start timeout"
       /\ cpc = "reaped"
       /\ exitcode = 1

C17_Witness ==
  /\ ExecTimedOut
  /\ pc = "done"
  /\ cstatus = [kind |-> "signal", code |-> 9]
  /\ Len(resp) = 1

\* the child has left the privilege transition and not ended
AfterTransition ==
  {"child_close_range", "child_cloexec_bridge", "child_exec", "child_exec_fallback",
   "child_exec_failed", "child_exit", "bridge"}

\* the child has not yet left the privilege transition
BeforeTransition ==
  {"none", "fd_move_exec_status", "fd_move_bridge", "fd_save_client", "fd_stdin",
   "fd_stdout", "fd_client", "fd_exec_status", "fd_bridge", "child_env", "child_privs"}

\* credentials c are those of passwd entry p for good: all three uids and gids are
\* p's and setuid(0) would fail
Dropped(c, p) ==
  /\ c.ruid = p.uid /\ c.euid = p.uid /\ c.suid = p.uid
  /\ c.rgid = p.gid /\ c.egid = p.gid /\ c.sgid = p.gid
  /\ ~CanSetuid(c, 0)

\* C18: an unprivileged child that has left the privilege transition has real,
\* effective and saved uid equal to the target uid, its gids equal to the target
\* gid, and cannot regain root with setuid(0); a child for which a step of the
\* transition failed or which could regain root has ended without executing the
\* bridge.
C18_DroppedForGood ==
  /\ (want_privileged = 0 /\ cpc \in AfterTransition) => Dropped(cred, pw)
  /\ (want_privileged = 0 /\ execd) => Dropped(cred, pw)
  /\ (want_privileged = 0 /\ cpc \notin BeforeTransition /\ ~Dropped(cred, pw)) =>
       (cpc \in {"zombie", "reaped"} /\ ~execd /\ cstatus = [kind |-> "exit", code |-> 127])

C18_Witness ==
  /\ want_privileged = 0
  /\ execd
  /\ cred.ruid = 1000 /\ cred.euid = 1000 /\ cred.suid = 1000
  /\ cred.groups = "user"

\* the variables the launcher sets
LauncherAlways == {"PATH", "LANG", "LC_ALL", "TERM", "HOME", "USER", "LOGNAME"}
LauncherAtMost == LauncherAlways \cup {"JOURNAL_STREAM", "XDG_RUNTIME_DIR"}

\* C19: a bridge that is exec'd has in its environment only variables the launcher
\* set: PATH, LANG, LC_ALL, TERM, HOME, USER, LOGNAME, XDG_RUNTIME_DIR when
\* dropping, and possibly JOURNAL_STREAM; PATH is the fixed list; HOME, USER and
\* LOGNAME are root's in privileged mode and the resolved user's otherwise; LANG
\* passes the locale predicate or is C.UTF-8, LC_ALL equals it, and TERM passes the
\* term predicate or is xterm-256color.
C19_EnvironmentIsLaunchers ==
  (execd \/ cpc = "child_exec") =>
    /\ DOMAIN cenv \subseteq LauncherAtMost
    /\ LauncherAlways \subseteq DOMAIN cenv
    /\ "XDG_RUNTIME_DIR" \in DOMAIN cenv <=> want_privileged = 0
    /\ cenv["PATH"] = FixedPath
    /\ cenv["HOME"] = IF want_privileged = 1 THEN RootHome ELSE pw.dir
    /\ cenv["USER"] = IF want_privileged = 1 THEN RootName ELSE pw.name
    /\ cenv["LOGNAME"] = cenv["USER"]
    /\ valid_locale(cenv["LANG"]) \/ cenv["LANG"] = DefaultLang
    /\ cenv["LC_ALL"] = cenv["LANG"]
    /\ valid_term(cenv["TERM"]) \/ cenv["TERM"] = DefaultTerm
    /\ "JOURNAL_STREAM" \in DOMAIN cenv => Len(cenv["JOURNAL_STREAM"]) > 0

C19_Witness ==
  /\ execd
  /\ want_privileged = 0
  /\ "JOURNAL_STREAM" \in DOMAIN cenv
  /\ cenv["LANG"] = DefaultLang
  /\ Len(cenv["TERM"]) = SafeBufSz - 1

\* the owners the launch may require of the binary: root for a privileged bridge,
\* the invoking user or root for an unprivileged one
RequiredOwners == IF want_privileged = 1 THEN {0} ELSE {pw.uid, 0}

\* the opened target st is a regular file, neither group- nor world-writable, with
\* an executable bit, without setuid and setgid, owned by owner
FileAcceptable(st, owner) ==
  /\ st.ok /\ st.reg
  /\ BitAnd(st.mode, WritableByOthersMask) = 0
  /\ BitAnd(st.mode, ExecBitsMask) # 0
  /\ BitAnd(st.mode, SetIdMask) = 0
  /\ st.uid = owner

\* C20: the validator accepts the opened target if and only if it is a regular
\* file, neither group- nor world-writable, with an executable bit, without setuid
\* and setgid, and owned by the required owner: root for a privileged launch, the
\* invoking user or else root for an unprivileged one (the path being openable and
\* the parent directory passing its policy for that owner).
C20_AcceptedIffOwnedAsRequired ==
  Called("open_and_validate_bridge") =>
    (CalledWith("open_and_validate_bridge", "0") <=>
       /\ bridge_file.open
       /\ bridge_file.pdir
       /\ \E o \in RequiredOwners :
            /\ FileAcceptable(bridge_file.st, o)
            /\ validate_parent_dir_policy(bridge_file.ds, bridge_file.st.uid, o) = 0)

(***************************************************************************)
(* Functions run on their own, on arguments drawn from bounded sets.       *)
(***************************************************************************)
\* all the variables but call
servevars == <<pc, exitcode, resp, hist, reqvars, motd, pw, want_privileged, pipevars,
               probe, peer, startup, bridge_file, childvars>>

\* the broker and the child stay as they are before main while a function runs
InitIdle ==
  /\ InitBroker
  /\ pfd = BrokerTable
  /\ peer \in {c \in ServicePeers : check_peer_creds(c) = 0}
  /\ startup = ServiceStartup
  /\ InitChild

\* a call of fn on arguments in, not yet run
Pending(fn, in) == [fn |-> fn, in |-> in, done |-> FALSE]

\* the call of fn is run and gives out
Run(fn, out) ==
  /\ call.fn = fn
  /\ ~call.done
  /\ call' = [fn |-> fn, in |-> call.in, done |-> TRUE, out |-> out]
  /\ UNCHANGED servevars

\* the arguments of validate_parent_dir_policy: the parent's stat (modes 0755, 0775,
\* 0757, 0777, 0700), the file's owner, the invoking user
PolicyArgs ==
  [ds : [dir : BOOLEAN, mode : {493, 509, 495, 511, 448}, uid : {0, 1000, 1001}],
   file_owner : {0, 1000, 1001}, user_uid : {0, 1000}]

PolicyCall ==
  Run("validate_parent_dir_policy",
      validate_parent_dir_policy(call.in.ds, call.in.file_owner, call.in.user_uid))
\* the size of handle_client's session_id array (line 1178)
PROTO_MAX_SESSION_ID == 64

\* a well-formed length-prefixed field carrying the bytes d
WellFormed(d) == [lenok |-> TRUE, len |-> Len(d), data |-> d]

\* handle_client 1178-1203 for the session id alone: the field is read into the
\* array, must not be empty, and must pass valid_session_id
session_id_accepted(d) ==
  LET r == read_lenstr(ZeroBuf(PROTO_MAX_SESSION_ID), PROTO_MAX_SESSION_ID, WellFormed(d))
  IN  /\ r.rc = 0
      /\ r.buf[1] # 0
      /\ valid_session_id(CStr(r.buf))

SessionIdCall == Run("session_id", session_id_accepted(call.in))

\* the largest buffer read_lenstr is run on by itself
MaxCap == 4

LenstrCall == Run("read_lenstr", read_lenstr(call.in.buf, Len(call.in.buf), call.in.f))
\* the exec-confirmation timeout in milliseconds (line 53)
BRIDGE_START_TIMEOUT_MS == 5000

\* strtol keeps a long; values beyond this are kept as this, which is above the
\* upper end of every range env_get_int is called with
StrtolCap == 1000000

IsDigit(c) == c >= 48 /\ c <= 57

\* isspace in the C locale
IsSpace(c) == c = 32 \/ (c >= 9 /\ c <= 13)

\* the first index at or after i of s that holds no white space
RECURSIVE SkipSpace(_, _)
SkipSpace(s, i) ==
  IF i <= Len(s) /\ IsSpace(s[i]) THEN SkipSpace(s, i + 1) ELSE i

\* the number of digits of s from index i on
RECURSIVE DigitRun(_, _)
DigitRun(s, i) ==
  IF i <= Len(s) /\ IsDigit(s[i]) THEN 1 + DigitRun(s, i + 1) ELSE 0

\* the value of the n digits of s from index i on, after acc
RECURSIVE Accumulate(_, _, _, _)
Accumulate(s, i, n, acc) ==
  IF n = 0 THEN acc
  ELSE LET a == acc * 10 + (s[i] - 48)
       IN  Accumulate(s, i + 1, n - 1, IF a > StrtolCap THEN StrtolCap ELSE a)

\* strtol(s, &end, 10) (line 318): white space, an optional sign, digits; end is
\* the index of the first byte not used, the start of s when there was no digit
strtol(s) ==
  LET i0 == SkipSpace(s, 1)
      signed == i0 <= Len(s) /\ s[i0] \in {43, 45}
      i1 == IF signed THEN i0 + 1 ELSE i0
      n == DigitRun(s, i1)
      mag == Accumulate(s, i1, n, 0)
  IN  IF n = 0 THEN [v |-> 0, end |-> 1]
      ELSE [v |-> IF signed /\ s[i0] = 45 THEN 0 - mag ELSE mag, end |-> i1 + n]

\* env_get_int (312-326) on the variable's value s
env_get_int(s, defval, minv, maxv) ==
  IF s = Unset \/ Len(s) = 0 THEN defval
  ELSE LET r == strtol(s)
       IN  IF r.end <= Len(s) THEN defval
           ELSE IF r.v < minv THEN minv
           ELSE IF r.v > maxv THEN maxv
           ELSE r.v

\* the three settings as the broker uses them: set_resource_limits (line 391),
\* user_has_sudo (line 632), and the select of handle_client (1404-1405)
Tunables(env) ==
  [nproc |-> env_get_int(env.LINUXIO_RLIMIT_NPROC, 1024, 10, 4096),
   to_pw |-> env_get_int(env.LINUXIO_SUDO_TIMEOUT_PASSWORD, 4, 1, 30),
   start_ms |-> BRIDGE_START_TIMEOUT_MS]

TunablesCall == Run("tunables", Tunables(call.in))
\* the sizes of handle_client's user and password arrays (lines 1176-1177)
PROTO_MAX_USERNAME == 256
PROTO_MAX_PASSWORD == 2048

\* read_u16_be (190-193)
read_u16_be(b) == b[1] * 256 + b[2]

\* the bytes write_lenstr hands to write_all, in order
Wire(r) == r.len \o r.data

\* a request's three fields as a peer emits them: for each the 2-byte big-endian
\* length, then the bytes
emit_request(u, p, s) ==
  Wire(write_lenstr(u)) \o Wire(write_lenstr(p)) \o Wire(write_lenstr(s))

\* what read_lenstr's two read_all calls (205, 225) find at the head of a stream
FieldAt(stream) ==
  IF Len(stream) < 2 THEN [lenok |-> FALSE, len |-> 0, data |-> <<>>]
  ELSE LET len == read_u16_be(stream)
           avail == IF Len(stream) - 2 < len THEN Len(stream) - 2 ELSE len
       IN  [lenok |-> TRUE, len |-> len, data |-> SubSeq(stream, 3, 2 + avail)]

\* the stream after a field that was read
After(stream, f) == SubSeq(stream, 3 + f.len, Len(stream))

\* handle_client 1176-1187 on a stream of bytes: the three read_lenstr calls, each
\* made only if the one before returned 0; the strings are what the arrays hold
parse_request(stream) ==
  LET fu == FieldAt(stream)
      ru == read_lenstr(ZeroBuf(PROTO_MAX_USERNAME), PROTO_MAX_USERNAME, fu)
      fp == FieldAt(After(stream, fu))
      rp == read_lenstr(ZeroBuf(PROTO_MAX_PASSWORD), PROTO_MAX_PASSWORD, fp)
      fs == FieldAt(After(After(stream, fu), fp))
      rs == read_lenstr(ZeroBuf(PROTO_MAX_SESSION_ID), PROTO_MAX_SESSION_ID, fs)
  IN  IF ru.rc # 0 THEN [rc |-> -1, field |-> "user"]
      ELSE IF rp.rc # 0 THEN [rc |-> -1, field |-> "password"]
      ELSE IF rs.rc # 0 THEN [rc |-> -1, field |-> "session_id"]
      ELSE [rc |-> 0, user |-> CStr(ru.buf), password |-> CStr(rp.buf),
            session_id |-> CStr(rs.buf)]

RoundTripCall ==
  Run("round_trip", parse_request(emit_request(call.in.user, call.in.password,
                                               call.in.session_id)))
(***************************************************************************)
(* The runtime directories: ensure_runtime_dirs of the packaged broker and *)
(* of the packaged helper.                                                 *)
(***************************************************************************)
\* 02771, the mode asked for /run/linuxio, and 02770, the mode asked for
\* /run/linuxio/<uid>; S_IWOTH and S_ISGID
BaseDirMode == 1529
UserDirMode == 1528
S_IWOTH == 2
S_ISGID == 1024

\* no entry of that name
Absent == [kind |-> "none", uid |-> 0, gid |-> 0, mode |-> 0]

\* mkdirat under umask 0 by a root process: the permission bits of mode, the
\* parent's group and set-group-id bit if the parent has that bit
mkdirat(parent_setgid, parent_gid, mode) ==
  [kind |-> "dir", uid |-> 0,
   gid |-> IF parent_setgid THEN parent_gid ELSE 0,
   mode |-> BitAnd(mode, 511) + (IF parent_setgid THEN S_ISGID ELSE 0)]

\* the exit of ensure_runtime_dirs with the umask left at 0
cleanup_keep(r, old_umask) == r

\* the exit of ensure_runtime_dirs: umask(old_umask) on every path after umask(0)
cleanup(r, old_umask) == [r EXCEPT !.umask = old_umask]

\* ensure_runtime_dirs of src/packaging/linuxio-auth.c (373-482).  a.fs holds the
\* entries linuxio under /run and <uid> under it; a.env says which of open("/run"),
\* mkdirat, fchown and fchmod the system lets the process do; the result has the
\* return code, the entries afterwards, the process umask and the set of
\* directories the run created or changed.
ensure_runtime_dirs(a) ==
  LET gid == IF a.grp THEN 990 ELSE 0
      b0 == a.fs.base
      b1 == IF b0.kind = "none" THEN mkdirat(FALSE, 0, BaseDirMode) ELSE b0
      t1 == IF b0.kind = "none" THEN {"base"} ELSE {}
      b2 == [b1 EXCEPT !.uid = 0, !.gid = gid]
      b3 == [b2 EXCEPT !.mode = BaseDirMode]
      u0 == a.fs.user
      u1 == IF u0.kind = "none"
            THEN mkdirat(BitAnd(b3.mode, S_ISGID) # 0, b3.gid, UserDirMode) ELSE u0
      t2 == IF u0.kind = "none" THEN {"base", "user"} ELSE {"base"}
      u2 == [u1 EXCEPT !.uid = a.pw_uid, !.gid = gid]
      u3 == [u2 EXCEPT !.mode = UserDirMode]
      out(rc, b, u, t) ==
        cleanup([rc |-> rc, fs |-> [base |-> b, user |-> u], umask |-> 0, touched |-> t],
                a.umask)
  IN  IF ~a.pw_ok
      THEN [rc |-> -1, fs |-> a.fs, umask |-> a.umask, touched |-> {}]
      ELSE IF ~a.env.run THEN out(-1, b0, u0, {})
      ELSE IF b0.kind = "none" /\ ~a.env.mkdir THEN out(-1, b0, u0, {})
      ELSE IF b1.kind # "dir" THEN out(-1, b1, u0, t1)
      ELSE IF BitAnd(b1.mode, S_IWOTH) # 0 THEN out(-1, b1, u0, t1)
      ELSE IF ~a.env.chown THEN out(-1, b1, u0, t1)
      ELSE IF ~a.env.chmod THEN out(-1, b2, u0, {"base"})
      ELSE IF u0.kind = "none" /\ ~a.env.mkdir THEN out(-1, b3, u0, {"base"})
      ELSE IF u1.kind # "dir" THEN out(-1, b3, u1, {"base"})
      ELSE IF ~a.env.chown THEN out(-1, b3, u1, t2)
      ELSE IF ~a.env.chmod THEN out(-1, b3, u2, {"base", "user"})
      ELSE out(0, b3, u3, {"base", "user"})

\* ensure_runtime_dirs of src/packaging/linuxio-auth-helper.c (351-510)
helper_ensure_runtime_dirs(a) ==
  LET gid == IF a.grp THEN 990 ELSE 0
      b0 == a.fs.base
      b1 == IF b0.kind = "none" THEN mkdirat(FALSE, 0, BaseDirMode) ELSE b0
      t1 == IF b0.kind = "none" THEN {"base"} ELSE {}
      b2 == IF a.env.chown THEN [b1 EXCEPT !.uid = 0, !.gid = gid] ELSE b1
      t2 == IF a.env.chown THEN {"base"} ELSE t1
      b3 == IF a.env.chmod THEN [b2 EXCEPT !.mode = BaseDirMode] ELSE b2
      t3 == IF a.env.chmod THEN {"base"} ELSE t2
      u0 == a.fs.user
      u1 == IF u0.kind = "none"
            THEN mkdirat(BitAnd(b3.mode, S_ISGID) # 0, b3.gid, UserDirMode) ELSE u0
      t4 == IF u0.kind = "none" THEN t3 \cup {"user"} ELSE t3
      wrong == u1.uid # a.pw_uid \/ u1.gid # gid
      u2 == IF wrong /\ a.env.chown THEN [u1 EXCEPT !.uid = a.pw_uid, !.gid = gid] ELSE u1
      t5 == IF wrong /\ a.env.chown THEN t4 \cup {"user"} ELSE t4
      u3 == IF a.env.chmod THEN [u2 EXCEPT !.mode = UserDirMode] ELSE u2
      t6 == IF a.env.chmod THEN t5 \cup {"user"} ELSE t5
      out(rc, b, u, t) ==
        cleanup([rc |-> rc, fs |-> [base |-> b, user |-> u], umask |-> 0, touched |-> t],
                a.umask)
  IN  IF ~a.pw_ok
      THEN [rc |-> -1, fs |-> a.fs, umask |-> a.umask, touched |-> {}]
      ELSE IF ~a.env.run THEN out(-1, b0, u0, {})
      ELSE IF b0.kind = "none" /\ ~a.env.mkdir THEN out(-1, b0, u0, {})
      ELSE IF b1.kind # "dir" THEN out(-1, b1, u0, t1)
      ELSE IF b1.uid # 0 \/ BitAnd(b1.mode, S_IWOTH) # 0 THEN out(-1, b1, u0, t1)
      ELSE IF ~a.env.chown /\ (b1.uid # 0 \/ b1.gid # gid) THEN out(-1, b1, u0, t1)
      ELSE IF u0.kind = "none" /\ ~a.env.mkdir THEN out(-1, b3, u0, t3)
      ELSE IF u1.kind # "dir" THEN out(-1, b3, u1, t3)
      ELSE IF wrong /\ ~a.env.chown /\ u1.uid # a.pw_uid THEN out(-1, b3, u1, t4)
      ELSE IF ~a.env.chmod /\ BitAnd(u2.mode, S_IWOTH) # 0 THEN out(-1, b3, u2, t5)
      ELSE out(0, b3, u3, t6)

\* one run of the variant named in the arguments
EnsureRun(a) ==
  IF a.variant = "helper" THEN helper_ensure_runtime_dirs(a) ELSE ensure_runtime_dirs(a)

EnsureCall == Run("ensure_runtime_dirs", EnsureRun(call.in))

\* a second run for the same user on what the first run left
EnsureAgain ==
  /\ call.fn = "ensure_runtime_dirs"
  /\ call.done
  /\ "again" \notin DOMAIN call
  /\ call' = [fn |-> call.fn, in |-> call.in, done |-> TRUE, out |-> call.out,
              again |-> EnsureRun([call.in EXCEPT !.fs = call.out.fs])]
  /\ UNCHANGED servevars

\* the entries the setup may find: none, something that is no directory, or a
\* directory with the owner, group and mode given
DirStates(uids, modes) ==
  {Absent, [kind |-> "file", uid |-> 0, gid |-> 0, mode |-> 420]}
  \cup [kind : {"dir"}, uid : uids, gid : {0, 990}, mode : modes]

EnsureArgs ==
  {a \in [variant : {"auth", "helper"}, pw_ok : BOOLEAN, pw_uid : {1000}, grp : BOOLEAN,
          umask : {18},
          env : [run : BOOLEAN, mkdir : BOOLEAN, chown : BOOLEAN, chmod : BOOLEAN],
          fs : [base : DirStates({0, 1000}, {493, 1529, 511}),
                user : DirStates({0, 1000}, {1528, 1480, 511})]] :
     /\ a.fs.base.kind # "dir" => a.fs.user = Absent
     /\ ~a.pw_ok => (a.env = [run |-> TRUE, mkdir |-> TRUE, chown |-> TRUE, chmod |-> TRUE])
     /\ ~a.env.run => (a.env.mkdir /\ a.env.chown /\ a.env.chmod)}
(***************************************************************************)
(* The conversation callback pam_conv_func and its MOTD buffer.            *)
(***************************************************************************)
\* sizeof(appdata->motd), 4096 in the program, and the callbacks followed
MotdBufSz == 6
MaxConvCalls == 3

\* the append of pam_conv_func with the newline added whenever the text did not fill the buffer
\* to its last byte
conv_append_tight(a, m) ==
  LET msg_len == Len(m)
      space_left == MotdBufSz - a.motd_len - 1
      copy_len == IF msg_len < space_left THEN msg_len ELSE space_left
      len1 == a.motd_len + copy_len
      buf1 == [i \in 1..MotdBufSz |->
                 IF i > a.motd_len /\ i <= len1 THEN m[i - a.motd_len] ELSE a.motd[i]]
      newline == len1 < MotdBufSz
      len2 == IF newline THEN len1 + 1 ELSE len1
      buf2 == IF newline THEN [buf1 EXCEPT ![len1 + 1] = 10] ELSE buf1
  IN  IF msg_len = 0 \/ space_left <= 0 THEN a
      ELSE [motd |-> IF len2 < MotdBufSz THEN [buf2 EXCEPT ![len2 + 1] = 0] ELSE buf2,
            motd_len |-> len2]

\* pam_conv_func 274-297: one PAM_TEXT_INFO or PAM_ERROR_MSG message m for the
\* buffer a
conv_append(a, m) ==
  LET msg_len == Len(m)
      space_left == MotdBufSz - a.motd_len - 1
      copy_len == IF msg_len < space_left THEN msg_len ELSE space_left
      len1 == a.motd_len + copy_len
      buf1 == [i \in 1..MotdBufSz |->
                 IF i > a.motd_len /\ i <= len1 THEN m[i - a.motd_len] ELSE a.motd[i]]
      newline == len1 < MotdBufSz - 1
      len2 == IF newline THEN len1 + 1 ELSE len1
      buf2 == IF newline THEN [buf1 EXCEPT ![len1 + 1] = 10] ELSE buf1
  IN  IF msg_len = 0 \/ space_left <= 0 THEN a
      ELSE [motd |-> [buf2 EXCEPT ![len2 + 1] = 0], motd_len |-> len2]

\* the loop of pam_conv_func (254-304) from message i on; alloc = "strdup" makes
\* the copy of the password fail
RECURSIVE conv_loop(_, _, _, _)
conv_loop(a, msgs, i, alloc) ==
  IF i > Len(msgs) THEN [rc |-> "PAM_SUCCESS", a |-> a]
  ELSE IF msgs[i].msg_style = "PAM_PROMPT_ECHO_OFF"
  THEN IF alloc = "strdup" THEN [rc |-> "PAM_CONV_ERR", a |-> a]
       ELSE conv_loop(a, msgs, i + 1, alloc)
  ELSE IF msgs[i].msg_style \in {"PAM_TEXT_INFO", "PAM_ERROR_MSG"}
  THEN conv_loop(conv_append(a, msgs[i].msg), msgs, i + 1, alloc)
  ELSE conv_loop(a, msgs, i + 1, alloc)

\* pam_conv_func (247-307) called with n messages
pam_conv_func(a, n, msgs, alloc) ==
  IF n <= 0 \/ n > 32 THEN [rc |-> "PAM_CONV_ERR", a |-> a]
  ELSE IF alloc = "calloc" THEN [rc |-> "PAM_CONV_ERR", a |-> a]
  ELSE conv_loop(a, msgs, 1, alloc)

\* the messages a verifier module may pass in one callback
ConvMessage ==
  [msg_style : {"PAM_PROMPT_ECHO_OFF", "PAM_PROMPT_ECHO_ON", "PAM_TEXT_INFO",
                "PAM_ERROR_MSG"},
   msg : {<<>>, <<97>>, <<98, 99, 100>>}]

\* the text of messages as the buffer is to take them: each non-empty
\* informational or error text followed by a newline
RECURSIVE Arriving(_, _)
Arriving(msgs, i) ==
  IF i > Len(msgs) THEN <<>>
  ELSE (IF msgs[i].msg_style \in {"PAM_TEXT_INFO", "PAM_ERROR_MSG"} /\ Len(msgs[i].msg) > 0
        THEN msgs[i].msg \o <<10>> ELSE <<>>) \o Arriving(msgs, i + 1)

\* one more callback during the conversation: call holds the buffer, the text that
\* has arrived in callbacks that returned success, and the last return code
ConvCall ==
  /\ call.fn = "pam_conv"
  /\ call.calls < MaxConvCalls
  /\ \E msgs \in {<<m>> : m \in ConvMessage} \cup {<<m1, m2>> : m1, m2 \in ConvMessage},
        alloc \in {"ok", "calloc", "strdup"}, bad \in {0, 33, -1} :
       LET n == IF bad = -1 THEN Len(msgs) ELSE bad
           r == pam_conv_func([motd |-> call.motd, motd_len |-> call.motd_len], n, msgs,
                              alloc)
       IN  call' = [fn |-> "pam_conv", motd |-> r.a.motd, motd_len |-> r.a.motd_len,
                    arrived |-> IF r.rc = "PAM_SUCCESS"
                                THEN call.arrived \o Arriving(msgs, 1) ELSE call.arrived,
                    clean |-> call.clean /\ (r.rc = "PAM_SUCCESS" \/ r.a.motd_len = call.motd_len),
                    args |-> [n |-> n, alloc |-> alloc],
                    rc |-> r.rc, calls |-> call.calls + 1]
  /\ UNCHANGED servevars

InitCalls ==
  /\ InitIdle
  /\ call \in
       {Pending("validate_parent_dir_policy", a) : a \in PolicyArgs}
       \cup {Pending("session_id", d) :
               d \in {Repeat(45, n) : n \in {0, 1, 63, 64, 65}}
                     \cup {<<47>>, <<97, 47, 98>>, <<65, 122, 48, 95, 45>>, <<32>>}}
       \cup {Pending("read_lenstr", [buf |-> Repeat(7, c), f |-> f]) :
               c \in 2..MaxCap,
               f \in {[lenok |-> k, len |-> n, data |-> Repeat(97, m)] :
                        k \in BOOLEAN, n \in 0..(MaxCap + 1), m \in 0..(MaxCap + 1)}}
       \cup {Pending("tunables", e) :
               e \in [LINUXIO_RLIMIT_NPROC :
                        {Unset, <<>>, <<97, 98, 99>>, <<49, 50, 97, 98, 99>>, <<53>>, <<49, 48>>, <<50, 48, 48, 48>>, <<52, 48, 57, 54>>, <<53, 48, 48, 48>>, <<45, 51>>, <<32, 55>>, <<55, 32>>, <<57, 57, 57, 57, 57, 57, 57, 57, 57, 57, 57, 57, 57>>},
                      LINUXIO_SUDO_TIMEOUT_PASSWORD :
                        {Unset, <<>>, <<120>>, <<48>>, <<49>>, <<52>>, <<51, 48>>, <<51, 49>>, <<43, 56>>, <<49, 101, 49>>},
                      LINUXIO_BRIDGE_START_TIMEOUT_MS :
                        {Unset, <<>>, <<57, 57, 57>>, <<49, 48, 48, 48>>, <<53, 48, 48, 48>>, <<49, 48, 48, 48, 48>>, <<51, 48, 48, 48, 48>>, <<51, 48, 48, 48, 49>>, <<102, 97, 115, 116>>}]}
       \cup {Pending("round_trip", t) :
               t \in [user : {<<>>, <<117>>, Repeat(117, 255), Repeat(117, 256)},
                      password : {<<>>, <<112>>, <<112, 119>>, Repeat(112, 300)},
                      session_id : {<<>>, <<115>>, <<115, 45, 49>>, Repeat(45, 63),
                                    Repeat(45, 64)}]}
       \cup {Pending("ensure_runtime_dirs", a) : a \in EnsureArgs}
       \cup {[fn |-> "pam_conv", motd |-> ZeroBuf(MotdBufSz), motd_len |-> 0,
              arrived |-> <<>>, clean |-> TRUE, args |-> [n |-> 0, alloc |-> "ok"],
              rc |-> "none", calls |-> 0]}

NextCalls ==
  \/ PolicyCall
  \/ ConvCall
  \/ EnsureCall
  \/ EnsureAgain
  \/ RoundTripCall
  \/ TunablesCall
  \/ SessionIdCall
  \/ LenstrCall

SpecCalls == InitCalls /\ [][NextCalls]_vars

\* C21: the parent-directory policy accepts exactly two combinations: a file owned
\* by root in a directory owned by root, or a file owned by the invoking user in a
\* directory owned by that user, the directory being neither group- nor
\* world-writable in both; all else is rejected.  A root-owned 0755 binary in a
\* root-owned 0755 parent is accepted, with the parent at 0775 it is rejected.
C21_ParentPolicyTwoCombinations ==
  /\ (call.fn = "validate_parent_dir_policy" /\ call.done) =>
       /\ call.out \in {0, -1}
       /\ call.out = 0 <=>
            /\ call.in.ds.dir
            /\ BitAnd(call.in.ds.mode, WritableByOthersMask) = 0
            /\ \/ call.in.file_owner = 0 /\ call.in.ds.uid = 0
               \/ call.in.file_owner = call.in.user_uid /\ call.in.ds.uid = call.in.user_uid
  /\ \A m \in {493, 509} :
       open_and_validate_bridge(
         [open |-> TRUE, st |-> [ok |-> TRUE, reg |-> TRUE, mode |-> 493, uid |-> 0],
          pdir |-> TRUE, ds |-> [dir |-> TRUE, mode |-> m, uid |-> 0]], 0)
       = IF m = 493 THEN 0 ELSE -1

\* a user-owned file in the user's own 0755 directory has been accepted
C21_Witness ==
  /\ call.fn = "validate_parent_dir_policy"
  /\ call.done
  /\ call.out = 0
  /\ call.in.file_owner = 1000
  /\ call.in.ds.uid = 1000
  /\ call.in.ds.mode = 493

\* C22: when authenticate or account management returns the password-expired code,
\* the one response is status 1 with "Password has expired. Please change it via
\* SSH or console.", setcred(establish) is not attempted, the elevation probe is
\* not run, the verifier context is released with that code, the password buffer
\* is zeroised, and the broker exits with 1.
C22_ExpiredPassword ==
  (\/ CalledWith("pam_authenticate", "PAM_NEW_AUTHTOK_REQD")
   \/ CalledWith("pam_acct_mgmt", "PAM_NEW_AUTHTOK_REQD")) =>
    /\ pc = "done"
    /\ exitcode = 1
    /\ Len(resp) = 1
    /\ resp[1].status = PROTO_STATUS_ERROR
    /\ resp[1].error = "Password has expired. Please change it via SSH or console."
    /\ ~Called("pam_setcred_establish")
    /\ ~Called("user_has_sudo") /\ ~Called("probe_fork")
    /\ ~Called("pam_open_session") /\ ~Called("fork")
    /\ Count("pam_end") = 1
    /\ SubSeq(hist, Len(hist) - 2, Len(hist)) =
         << <<"send_response", "error">>, <<"pam_end", "PAM_NEW_AUTHTOK_REQD">>,
            <<"bzero_password", "">> >>
    /\ AllZero(password)

\* account management has found the password expired after a good authentication
C22_Witness ==
  /\ CalledWith("pam_authenticate", "PAM_SUCCESS")
  /\ CalledWith("pam_acct_mgmt", "PAM_NEW_AUTHTOK_REQD")
  /\ exitcode = 1

\* C23: every response the broker writes in full is the 8-byte header (magic 'L',
\* 'I', 'O', version 1, status, mode, two zero bytes) followed by one
\* length-prefixed string whose 2-byte big-endian length is the number of bytes
\* that follow it: the error reason when the status is error, the collected MOTD,
\* possibly empty, when it is ok; the mode byte of an ok response is 1 exactly when
\* the elevation probe reported privileged.
C23_ResponseWireFormat ==
  \A i \in DOMAIN resp :
    /\ resp[i].header = <<76, 73, 79, 1, resp[i].status, resp[i].mode, 0, 0>>
    /\ Len(resp[i].header) = 8
    /\ resp[i].status \in {PROTO_STATUS_OK, PROTO_STATUS_ERROR}
    /\ Len(resp[i].str.len) = 2
    /\ 256 * resp[i].str.len[1] + resp[i].str.len[2] = Len(resp[i].str.data)
    /\ resp[i].status = PROTO_STATUS_ERROR =>
         (resp[i].str.data = resp[i].error /\ Len(resp[i].error) > 0 /\ resp[i].mode = 0)
    /\ resp[i].status = PROTO_STATUS_OK =>
         /\ resp[i].str.data = motd
         /\ resp[i].mode \in {0, 1}
         /\ resp[i].mode = 1 <=> want_privileged = 1
         /\ want_privileged = 1 <=> CalledWith("user_has_sudo", "1")

\* a success response with a MOTD of one byte for a privileged session
C23_Witness ==
  \E i \in DOMAIN resp :
    /\ resp[i].status = PROTO_STATUS_OK
    /\ resp[i].wrote = "full"
    /\ resp[i].mode = 1
    /\ resp[i].str.len = <<0, 1>>

\* C24: a response reaches the peer in full or not at all, and a failed write of
\* a response is a hard failure: after a success response whose header or string
\* was not written the broker does not go on to wait for the bridge and hand its
\* exit status back as if the response had been delivered.
C24_ResponseAllOrNothing ==
  /\ \A i \in DOMAIN resp : resp[i].wrote \in {"full", "none"}
  /\ (\E i \in DOMAIN resp : resp[i].status = PROTO_STATUS_OK /\ resp[i].wrote # "full")
       => (~Called("waitpid") /\ (pc = "done" => exitcode # 0))

\* C25: a session id sent in a well-formed request is accepted if and only if it
\* is not empty, at most 64 bytes long and made of bytes in [A-Za-z0-9_-] only; 64
\* '-' bytes pass, 0 or 65 bytes and ids holding '/' do not.
C25_SessionIdAcceptedIff ==
  (call.fn = "session_id" /\ call.done) =>
    /\ call.out <=> /\ Len(call.in) > 0
                    /\ Len(call.in) <= 64
                    /\ \A i \in 1..Len(call.in) :
                         IsAlnum(call.in[i]) \/ call.in[i] = 95 \/ call.in[i] = 45
    /\ call.in = Repeat(45, 64) => call.out
    /\ Len(call.in) \in {0, 65} => ~call.out
    /\ (\E i \in 1..Len(call.in) : call.in[i] = 47) => ~call.out

C28_TunablesFromEnvironment ==
  (call.fn = "tunables" /\ call.done) =>
    LET Whole(s) == s # Unset /\ Len(s) > 0 /\ DigitRun(s, 1) = Len(s)
        \* unset, or letters and digits only: no sign and no blank to argue about
        Clear(s) == s = Unset \/ \A i \in 1..Len(s) : IsAlnum(s[i])
        Value(s) == Accumulate(s, 1, Len(s), 0)
        Setting(s, d, lo, hi) ==
          IF ~Whole(s) THEN d
          ELSE IF Value(s) < lo THEN lo
          ELSE IF Value(s) > hi THEN hi
          ELSE Value(s)
        nproc == call.in.LINUXIO_RLIMIT_NPROC
        to_pw == call.in.LINUXIO_SUDO_TIMEOUT_PASSWORD
        start_ms == call.in.LINUXIO_BRIDGE_START_TIMEOUT_MS
    IN  /\ call.out.nproc \in 10..4096
        /\ call.out.to_pw \in 1..30
        /\ call.out.start_ms \in 1000..30000
        /\ Clear(nproc) => call.out.nproc = Setting(nproc, 1024, 10, 4096)
        /\ Clear(to_pw) => call.out.to_pw = Setting(to_pw, 4, 1, 30)
        /\ Clear(start_ms) => call.out.start_ms = Setting(start_ms, 5000, 1000, 30000)

\* C27: parsing inverts emission: for every user name, password and session id
\* within the size limits (256, 2048 and 64 bytes), emitting the three as 2-byte
\* big-endian lengths each followed by its bytes and parsing the result with
\* read_lenstr yields the same three strings, byte for byte and of the same lengths.
C27_ParseInvertsEmit ==
  (call.fn = "round_trip" /\ call.done) =>
    ((/\ Len(call.in.user) <= PROTO_MAX_USERNAME
      /\ Len(call.in.password) <= PROTO_MAX_PASSWORD
      /\ Len(call.in.session_id) <= PROTO_MAX_SESSION_ID)
     => /\ call.out.rc = 0
        /\ call.out.user = call.in.user
        /\ call.out.password = call.in.password
        /\ call.out.session_id = call.in.session_id)

\* C29: after any run of ensure_runtime_dirs, successful or failed, no directory
\* under /run/linuxio that the run created or changed is world-writable; after a
\* successful run /run/linuxio/<uid> has mode exactly 02710 and is owned by the
\* user with the socket group as its group.
C29_RuntimeDirsSafe ==
  (call.fn = "ensure_runtime_dirs" /\ call.done) =>
    /\ \A d \in call.out.touched : BitAnd(call.out.fs[d].mode, S_IWOTH) = 0
    /\ call.out.rc = 0 =>
         /\ call.out.fs.user.kind = "dir"
         /\ call.out.fs.user.mode = 1480
         /\ call.out.fs.user.uid = call.in.pw_uid
         /\ call.out.fs.user.gid = (IF call.in.grp THEN 990 ELSE 0)

\* C30: the setup is idempotent: whatever /run/linuxio held at first (nothing,
\* directories with a wrong owner, group or mode, or the right ones), if one run
\* succeeds then a second run for the same user succeeds too and leaves owner,
\* group and mode of both directories as the first run left them; after each run
\* the process umask is what it was before.
C30_SetupIdempotent ==
  (call.fn = "ensure_runtime_dirs" /\ call.done) =>
    /\ call.out.umask = call.in.umask
    /\ "again" \in DOMAIN call =>
         /\ call.again.umask = call.in.umask
         /\ call.out.rc = 0 =>
              /\ call.again.rc = 0
              /\ call.again.fs = call.out.fs

\* both runs succeeded from a base directory with the wrong group and mode and no
\* per-user directory
C30_Witness ==
  /\ call.fn = "ensure_runtime_dirs" /\ call.done
  /\ "again" \in DOMAIN call
  /\ call.in.fs.base.kind = "dir" /\ call.in.fs.base.gid = 0 /\ call.in.fs.base.mode = 493
  /\ call.in.grp
  /\ call.in.fs.user = Absent
  /\ call.out.rc = 0 /\ call.again.rc = 0
  /\ call.out.fs.base.gid = 990
  /\ call.again.fs.user.kind = "dir"

\* C31: once the broker has written the success response it neither reads from
\* nor writes to the client connection again: the success response is the last
\* record it writes, the four parts of the request are all it ever reads, and the
\* only calls it makes afterwards are the wait for the child and the release of
\* the verifier session.
C31_NoClientIoAfterOk ==
  \A i \in DOMAIN hist :
    hist[i] = <<"send_response", "ok">> =>
      /\ \A j \in (i + 1)..Len(hist) :
           hist[j][1] \in {"waitpid", "pam_close_session", "pam_setcred_delete", "pam_end"}
      /\ Len(resp) > 0
      /\ resp[Len(resp)].status = PROTO_STATUS_OK
      /\ Cardinality({k \in DOMAIN resp : resp[k].status = PROTO_STATUS_OK}) = 1
      /\ nread = 4
      /\ pfd[STDIN_FILENO].obj = "client" /\ pfd[STDOUT_FILENO].obj = "client"

\* the broker has returned after the success response and the wait for the bridge
C31_Witness ==
  /\ pc = "done"
  /\ CalledWith("send_response", "ok")
  /\ hist[Len(hist)][1] = "pam_end"
  /\ CalledWith("waitpid", "bridge")
  /\ resp[Len(resp)].wrote = "full"

\* the conditions under which an exec closes the exec-status pipe's last write end:
\* a child about to exec has FD 4 and FD 5 marked close-on-exec and no descriptor
\* but FD 4 on the write end; a broker that has come to its wait holds no write end
ExecStatusHygiene ==
  /\ cpc \in {"child_exec", "child_exec_fallback"} =>
       /\ fdt[EXEC_STATUS_FD].obj = "exec_w" /\ fdt[EXEC_STATUS_FD].cloexec
       /\ IsOpen(fdt, BRIDGE_FD) => fdt[BRIDGE_FD].cloexec
       /\ cpc = "child_exec" => (fdt[BRIDGE_FD].obj = "bridge" /\ fdt[BRIDGE_FD].cloexec)
       /\ Holding(fdt, "exec_w") = {EXEC_STATUS_FD}
  /\ pc \in {"write_bootstrap", "select", "read_exec_status"} => Holding(pfd, "exec_w") = {}

BootstrapWriters == Holding(pfd, "bootstrap_w") \cup Holding(fdt, "bootstrap_w")

\* C33: the bridge's read of the bootstrap on its stdin reaches EOF: the broker has
\* written the whole bootstrap and closed its write end of the pipe before it
\* starts to wait for the exec confirmation, and a child at the moment of exec
\* holds no descriptor on the write end, so once the broker has closed its own no
\* write end is open and the bridge, reading FD 0, comes to the end of the data.
C33_BootstrapReachesEof ==
  /\ pc \in {"select", "read_exec_status", "exec_timeout", "exec_select_failed",
             "exec_failed", "exec_failed_wait", "send_ok", "wait_child"} =>
       /\ CalledWith("write_bootstrap_binary", "0")
       /\ Holding(pfd, "bootstrap_w") = {}
  /\ cpc \in {"child_exec", "child_exec_fallback", "bridge"} =>
       Holding(fdt, "bootstrap_w") = {}
  /\ cpc = "bridge" => fdt[STDIN_FILENO].obj = "bootstrap_r"
  /\ (cpc = "bridge" /\ pc # "write_bootstrap") => BootstrapWriters = {}
  /\ pc = "done" => Holding(pfd, "bootstrap_w") = {}

\* the bridge runs, the bootstrap is written and no write end of the pipe is left
C33_Witness ==
  /\ cpc = "bridge"
  /\ pc = "select"
  /\ CalledWith("write_bootstrap_binary", "0")
  /\ fdt[STDIN_FILENO].obj = "bootstrap_r"
  /\ BootstrapWriters = {}

\* C34: the whole request (the header and the three length-prefixed fields) is
\* read before anything is validated: no check of magic and version, no check of
\* the required fields or of the session id, and no error response other than one
\* for a failed read, happens while a part of the request is still unread.
C34_ReadAllBeforeValidation ==
  /\ Called("check_magic") => nread = 4
  /\ \A i \in DOMAIN resp :
       resp[i].error \notin {"failed to read request header",
                             "failed to read request fields"} => nread = 4

\* C35: after any sequence of conversation callbacks, with any mix of message
\* styles and lengths, the MOTD buffer holds at most sizeof(motd) - 1 bytes of text
\* and a zero after them; the text is what arrived, each message followed by a
\* newline, in order, cut off where the buffer is full; and a callback with 1 to 32
\* messages whose allocations succeed returns PAM_SUCCESS however full the buffer.
C35_MotdBounded ==
  call.fn = "pam_conv" =>
    /\ call.motd_len \in 0..(MotdBufSz - 1)
    /\ call.motd[call.motd_len + 1] = 0
    /\ \A i \in 1..call.motd_len : call.motd[i] # 0
    /\ call.clean =>
         SubSeq(call.motd, 1, call.motd_len) =
           SubSeq(call.arrived, 1,
                  IF Len(call.arrived) < MotdBufSz - 1 THEN Len(call.arrived)
                  ELSE MotdBufSz - 1)
    /\ (call.calls > 0 /\ call.args.n \in 1..32 /\ call.args.alloc = "ok") =>
         call.rc = "PAM_SUCCESS"

\* more text has arrived than the buffer takes, and the last callback succeeded
C35_Witness ==
  /\ call.fn = "pam_conv"
  /\ call.clean
  /\ Len(call.arrived) > MotdBufSz
  /\ call.motd_len = MotdBufSz - 1
  /\ call.rc = "PAM_SUCCESS"

\* C36: the bridge child is forked (spawn_bridge_process is called) only after the
\* verifier's authenticate, account management and setcred(establish), the user
\* lookup, the validation of the bridge binary and the session open were each
\* called once, in this order, and each succeeded; on a request where one of them
\* failed there is no fork of a bridge child.
C36_ForkAfterAllChecks ==
  LET Steps == << <<"pam_authenticate", "PAM_SUCCESS">>, <<"pam_acct_mgmt", "PAM_SUCCESS">>,
                  <<"pam_setcred_establish", "PAM_SUCCESS">>, <<"getpwnam", "found">>,
                  <<"open_and_validate_bridge", "0">>, <<"pam_open_session", "PAM_SUCCESS">> >>
      At(c) == {j \in DOMAIN hist : hist[j][1] = c}
  IN  /\ \A i \in DOMAIN hist :
           hist[i][1] = "fork" =>
             /\ \A k \in DOMAIN Steps :
                  \E j \in 1..(i - 1) :
                    /\ hist[j] = Steps[k]
                    /\ At(Steps[k][1]) = {j}
                    /\ k > 1 => \E j0 \in 1..(j - 1) : hist[j0] = Steps[k - 1]
             /\ Count("fork") = 1
      /\ (\E k \in DOMAIN Steps, j \in DOMAIN hist :
            hist[j][1] = Steps[k][1] /\ hist[j][2] # Steps[k][2]) => ~Called("fork")
      /\ (cpc # "none") => Called("fork")

\* a bridge child was forked
C36_Witness ==
  /\ CalledWith("fork", "child")
  /\ cpc = "bridge"
  /\ CalledWith("pam_open_session", "PAM_SUCCESS")

\* handle_client 1366-1374: the bootstrap the broker wrote for a request with verbose
\* flag v; pw, want_privileged, user and session_id are not assigned again after the
\* fork
BootstrapWritten(v) ==
  write_bootstrap_binary(CStr(session_id), CStr(user), motd, pw.uid, pw.gid, v,
                         want_privileged)

\* the 32-bit big-endian value at offset off of b
U32At(b, off) ==
  ((b[off + 1] * 256 + b[off + 2]) * 256 + b[off + 3]) * 256 + b[off + 4]

\* the three places where the privilege decision is seen
ModePrivileged == \E i \in DOMAIN resp : resp[i].status = PROTO_STATUS_OK
                                         /\ resp[i].mode = PROTO_MODE_PRIVILEGED
FlagPrivileged(b) == (b[13] \div PROTO_FLAG_PRIVILEGED) % 2 = 1
ExecdAs(u, g) ==
  /\ execd
  /\ cred.ruid = u /\ cred.euid = u /\ cred.suid = u
  /\ cred.rgid = g /\ cred.egid = g /\ cred.sgid = g

\* C37: on every run that sends an ok response, the response's mode byte is
\* privileged iff the privileged bit of the bootstrap flags is set iff the bridge
\* was exec'd with uid = gid = 0; in unprivileged mode the bridge was exec'd with
\* the uid and gid of the resolved user, which are the uid and gid of the bootstrap
\* header.
C37_PrivilegeConsistent ==
  OkSent =>
    \A v \in {0, 1} :
      LET b == BootstrapWritten(v)
      IN  /\ ModePrivileged <=> FlagPrivileged(b)
          /\ FlagPrivileged(b) <=> ExecdAs(0, 0)
          /\ ~ModePrivileged =>
               /\ ExecdAs(pw.uid, pw.gid)
               /\ U32At(b, 4) = pw.uid /\ U32At(b, 8) = pw.gid

\* what does hold: mode byte and flags bit agree, the header carries the resolved
\* user's ids, and a bridge that was exec'd runs as root iff privileged and as the
\* resolved user otherwise
PrivilegeConsistentIfExecd ==
  OkSent =>
    \A v \in {0, 1} :
      LET b == BootstrapWritten(v)
      IN  /\ ModePrivileged <=> FlagPrivileged(b)
          /\ ModePrivileged <=> want_privileged = 1
          /\ U32At(b, 4) = pw.uid /\ U32At(b, 8) = pw.gid
          /\ execd => (ModePrivileged <=> ExecdAs(0, 0))
          /\ (execd /\ ~ModePrivileged) => ExecdAs(pw.uid, pw.gid)

\* run_cmd_as_user_with_input is past its polling loop or has returned
ProbeRunOver == pc \notin {"main", "probe", "probe_poll"} /\ Called("probe_fork")

\* the polling loop of run_cmd_as_user_with_input: elapsed_ms counts the rounds that
\* went on to sleep, PollMs each, and a round is entered only below the timeout, so
\* the rounds of a run never exceed timeout_sec * 1000 / PollMs
PollingBounded ==
  /\ [](pc \in {"probe_poll", "probe_result"} =>
          /\ probe.elapsed_ms % PollMs = 0
          /\ probe.elapsed_ms <= probe.timeout_sec * 1000
          /\ pc = "probe_result" =>
               (probe.elapsed_ms \div PollMs) + 1 <= probe.timeout_sec * (1000 \div PollMs))
  /\ [][(pc = "probe_poll" /\ pc' = "probe_poll" /\ probe'.child = probe.child) =>
          /\ probe.elapsed_ms < probe.timeout_sec * 1000
          /\ probe'.elapsed_ms = probe.elapsed_ms + PollMs]_vars

\* C38 as stated: run_cmd_as_user_with_input ends within timeout_sec * 10 rounds of
\* polling, and when it returns after a successful fork the probe child has been
\* reaped, by the polling wait or, on timeout, by the wait that follows SIGKILL.
C38_ProbeAlwaysReaped ==
  ProbeRunOver => probe.child = "reaped"

\* C38: run_cmd_as_user_with_input ends within timeout_sec * 10 rounds of polling,
\* and when it returns after a successful fork the probe child no longer exists: it
\* was collected by the polling wait, or the polling wait failed because the kernel
\* had already discarded the ended child, or, on timeout, it was sent SIGKILL and
\* waited for; no return leaves the probe child running or as a zombie.
C38_ProbeNeverLeftBehind ==
  /\ PollingBounded
  /\ [](ProbeRunOver => probe.child \in {"reaped", "gone"})

\* the probe timed out and user_has_sudo has returned
C38_Witness ==
  /\ CalledWith("probe_fork", "validate")
  /\ CalledWith("user_has_sudo", "0")
  /\ probe.child = "reaped"
  /\ probe.vres = "other"
  /\ probe.cstat = StatusZero

\* the broker called send_response after it had forked the bridge child
RespondedAfterFork ==
  \E i, j \in DOMAIN hist :
    i < j /\ hist[i] = <<"fork", "child">> /\ hist[j][1] = "send_response"

\* C39: once the bridge child has been forked, the broker eventually writes its
\* response, whatever the child does or fails to do, provided the broker itself is
\* scheduled.
C39_ForkLeadsToResponse ==
  CalledWith("fork", "child") ~> RespondedAfterFork

\* the child never got as far as exec, and the peer has its answer
C39_Witness ==
  /\ CalledWith("fork", "child")
  /\ CalledWith("select", "0")
  /\ ~execd
  /\ RespondedAfterFork
  /\ resp[Len(resp)].error = "bridge start timeout"

====
